---- MODULE Spec2Model ----
(***************************************************************************)
(* Model of the recall-agent trading core: the strategy decision cascade   *)
(* (StrategyOrchestrator and its evaluators), the guaranteed-trade         *)
(* fallbacks, the risk gate (RiskManager) and the trading cycle of         *)
(* TradingAgent.                                                           *)
(*                                                                         *)
(* JavaScript numbers are modelled as exact rationals [n, d] (d > 0, in    *)
(* lowest terms); floating-point rounding is not modelled.  A price of 0   *)
(* in the price map stands for a price that is missing or falsy.           *)
(***************************************************************************)
EXTENDS Integers, Sequences, FiniteSets, TLC

\* F(v) with v evaluated once: a statement `const x = v; ...` of the code
With(v, F(_)) == CHOOSE r \in {F(x) : x \in {v}} : TRUE

\* ------------------------------------------------------------------------
\* Rational arithmetic (JavaScript number operations used by the code)
\* ------------------------------------------------------------------------
Abs(x) == IF x < 0 THEN -x ELSE x

RECURSIVE GCD(_, _)
GCD(a, b) == IF b = 0 THEN a ELSE GCD(b, a % b)

\* n / d for d > 0, in lowest terms
Q(n, d) == LET g == GCD(Abs(n), d) IN [n |-> n \div g, d |-> d \div g]

QInt(i) == [n |-> i, d |-> 1]
QAdd(x, y) == Q(x.n * y.d + y.n * x.d, x.d * y.d)
QSub(x, y) == Q(x.n * y.d - y.n * x.d, x.d * y.d)
QMul(x, y) == Q(x.n * y.n, x.d * y.d)
\* x / y for y > 0
QDiv(x, y) == Q(x.n * y.d, x.d * y.n)
QLt(x, y) == x.n * y.d < y.n * x.d
QLe(x, y) == x.n * y.d <= y.n * x.d
QGt(x, y) == QLt(y, x)
QGe(x, y) == QLe(y, x)
QAbs(x) == [n |-> Abs(x.n), d |-> x.d]
QMin(x, y) == IF QLe(x, y) THEN x ELSE y

\* ------------------------------------------------------------------------
\* IEEE 754 double arithmetic (the JavaScript number type) on positive
\* values: a double is [hi, lo, e] and stands for (hi * 2^27 + lo) * 2^e
\* with a 53-bit significand, 2^25 <= hi < 2^26 and 0 <= lo < 2^27; zero is
\* DblZero.  Sums, products and quotients round to nearest, ties to even.
\* The prices of the other sections are whole numbers, whose sums are exact
\* in doubles; fractional prices need the rounding.
\* ------------------------------------------------------------------------
RECURSIVE Pow2(_)
Pow2(n) == IF n = 0 THEN 1 ELSE 2 * Pow2(n - 1)

DblZero == [hi |-> 0, lo |-> 0, e |-> 0]

\* a significand before rounding: hi * 2^27 + lo, carries propagated
BigNorm(hi, lo) == [hi |-> hi + lo \div Pow2(27), lo |-> lo % Pow2(27)]
BigShl(N, t) == BigNorm(N.hi * Pow2(t), N.lo * Pow2(t))

\* the significand q (already 53 bits or less) with exponent e, one ulp
\* added if up, renormalised when that carries into bit 54
DblPack(q, e, up) ==
  LET r == IF up THEN BigNorm(q.hi, q.lo + 1) ELSE q
  IN IF r.hi = Pow2(26) THEN [hi |-> Pow2(25), lo |-> 0, e |-> e + 1]
     ELSE [hi |-> r.hi, lo |-> r.lo, e |-> e]

\* N * 2^e (N of at least 53 bits) rounded to a double
DblRound(N, e) ==
  LET s == CHOOSE k \in 0..5 : N.hi < Pow2(26 + k) /\ (k = 0 \/ N.hi >= Pow2(25 + k))
      q == [hi |-> N.hi \div Pow2(s),
            lo |-> N.lo \div Pow2(s) + (N.hi % Pow2(s)) * Pow2(27 - s)]
      r == N.lo % Pow2(s)
      up == s > 0 /\ (2 * r > Pow2(s) \/ (2 * r = Pow2(s) /\ q.lo % 2 = 1))
  IN DblPack(q, e + s, up)

\* a + b for doubles whose exponents differ by at most 3
DblAdd(a, b) ==
  IF a = DblZero THEN b
  ELSE IF b = DblZero THEN a
  ELSE LET x == IF a.e >= b.e THEN a ELSE b
           y == IF a.e >= b.e THEN b ELSE a
           X == BigShl(x, x.e - y.e)
       IN DblRound(BigNorm(X.hi + y.hi, X.lo + y.lo), y.e)

\* a * k for an integer 1 <= k <= 8
DblMulInt(a, k) ==
  IF a = DblZero THEN DblZero ELSE DblRound(BigNorm(a.hi * k, a.lo * k), a.e)

\* a / k for an integer 1 <= k <= 8
DblDivInt(a, k) ==
  IF a = DblZero THEN DblZero
  ELSE LET t == CHOOSE i \in 0..3 : /\ BigShl(a, i).hi >= k * Pow2(25)
                                     /\ (i = 0 \/ BigShl(a, i - 1).hi < k * Pow2(25))
           N == BigShl(a, t)
           x == (N.hi % k) * Pow2(27) + N.lo
           q == [hi |-> N.hi \div k, lo |-> x \div k]
           r == x % k
           up == 2 * r > k \/ (2 * r = k /\ q.lo % 2 = 1)
       IN DblPack(q, a.e - t, up)

\* the double of a whole number 1 <= i < 2^26
DblFromInt(i) ==
  LET L == CHOOSE k \in 1..26 : Pow2(k - 1) <= i /\ i < Pow2(k)
  IN [hi |-> i * Pow2(26 - L), lo |-> 0, e |-> L - 53]

DblLt(a, b) ==
  IF a = DblZero THEN b # DblZero
  ELSE IF b = DblZero THEN FALSE
  ELSE \/ a.e < b.e
       \/ a.e = b.e /\ (a.hi < b.hi \/ (a.hi = b.hi /\ a.lo < b.lo))
DblLe(a, b) == a = b \/ DblLt(a, b)

\* Array.prototype.slice(a, b) on a sequence (0-based, negative = from end)
JSIndex(len, i) == IF i < 0 THEN (IF len + i < 0 THEN 0 ELSE len + i)
                   ELSE (IF i > len THEN len ELSE i)
Slice(s, a, b) == SubSeq(s, JSIndex(Len(s), a) + 1, JSIndex(Len(s), b))
SliceFrom(s, a) == SubSeq(s, JSIndex(Len(s), a) + 1, Len(s))

RECURSIVE SumSeq(_)
SumSeq(s) == IF s = <<>> THEN 0 ELSE Head(s) + SumSeq(Tail(s))

RECURSIVE MaxSeq(_)
MaxSeq(s) == IF Len(s) = 1 THEN s[1]
             ELSE LET m == MaxSeq(Tail(s)) IN IF s[1] > m THEN s[1] ELSE m

RECURSIVE MinSeq(_)
MinSeq(s) == IF Len(s) = 1 THEN s[1]
             ELSE LET m == MinSeq(Tail(s)) IN IF s[1] < m THEN s[1] ELSE m

\* ------------------------------------------------------------------------
\* Types (types/index.ts)
\* ------------------------------------------------------------------------
USDC == "USDC"
WETH == "WETH"
WBTC == "WBTC"
DAI  == "DAI"
USDT == "USDT"
\* Object.values(TOKENS)
TOKENS == <<USDC, WETH, WBTC, DAI, USDT>>
\* contract address returned by the token-discovery collaborator
LOSER == "LOSER"
MEME  == "MEME"
AllTokens == {USDC, WETH, WBTC, DAI, USDT, LOSER, MEME}

\* "no decision" (null)
NULL == [action |-> "null"]

\* TradingDecision; `reason` keeps the fixed prefix of the reason string
Decision(action, from, to, amount, reason, confidence, marker) ==
  [action |-> action, fromToken |-> from, toToken |-> to, amount |-> amount,
   reason |-> reason, confidence |-> confidence, isGuaranteedMemeTrade |-> marker]

\* Token.value and Portfolio.totalValue of a snapshot
TokenValue(t) == t.amount * t.price
RECURSIVE SumValues(_)
SumValues(ts) == IF ts = <<>> THEN 0 ELSE TokenValue(Head(ts)) + SumValues(Tail(ts))
TotalValue(md) == SumValues(md.tokens)

\* portfolio.tokens.find(t => t.token === tokenAddress)
FindToken(md, token) ==
  LET idx == {i \in 1..Len(md.tokens) : md.tokens[i].token = token}
  IN IF idx = {} THEN NULL
     ELSE md.tokens[CHOOSE i \in idx : \A j \in idx : i <= j]

\* getTokenBalance: token?.amount || 0
getTokenBalance(md, token) ==
  LET t == FindToken(md, token) IN IF t = NULL THEN 0 ELSE t.amount


\* ------------------------------------------------------------------------
\* StrategyParamsManager (strategyParams.ts)
\* ------------------------------------------------------------------------
\* Lookback windows of the model (the defaults 10/50/20/50 scaled down; they
\* are ordinary parameters the control surface may set)
ShortSmaPeriod == 1
LongSmaPeriod == 2
MeanReversionLookback == 2
BreakoutLookback == 2

\* getDefaultParams; targetAllocations in Object.entries order
DefaultParams ==
  [maxPositionSize |-> Q(20, 100),
   minTradeAmount |-> QInt(10),
   rebalanceThreshold |-> Q(1, 100),
   targetAllocations |-> << [token |-> USDC, target |-> Q(40, 100)],
                            [token |-> WETH, target |-> Q(35, 100)],
                            [token |-> WBTC, target |-> Q(25, 100)] >>,
   meanReversionLookbackPeriod |-> MeanReversionLookback,
   meanReversionDeviationThreshold |-> Q(1, 100),
   trendFollowingShortSmaPeriod |-> ShortSmaPeriod,
   trendFollowingLongSmaPeriod |-> LongSmaPeriod,
   breakoutLookbackPeriod |-> BreakoutLookback,
   breakoutVolatilityThreshold |-> Q(2, 100),
   breakoutConfirmationFactor |-> Q(2, 1000),
   lossStrategyEnabled |-> FALSE,
   lossStrategyTargetAllocation |-> Q(95, 100),
   llmEnabled |-> FALSE,
   llmObjective |-> "maximize_profit",
   guaranteedMemeTradeEnabled |-> FALSE,
   guaranteedMemeTradeAmountUSD |-> QInt(10)]

\* ------------------------------------------------------------------------
\* MarketDataRepository (marketDataRepository.ts)
\* ------------------------------------------------------------------------
\* The market_data table per token: points [ts, price] ordered by timestamp.
\* Readers only ever ask for the newest `limit` points, so the model keeps
\* the newest HistoryKeep points of each token.
Max2(a, b) == IF a > b THEN a ELSE b
HistoryKeep == Max2(Max2(LongSmaPeriod, BreakoutLookback), MeanReversionLookback)

\* INSERT OR REPLACE keyed by (timestamp, token_address)
saveMarketData(hist, ts, token, price) ==
  LET h == hist[token]
      kept == SelectSeq(h, LAMBDA pt : pt.ts # ts)
      older == SelectSeq(kept, LAMBDA pt : pt.ts < ts)
      newer == SelectSeq(kept, LAMBDA pt : pt.ts > ts)
      all == older \o <<[ts |-> ts, price |-> price]>> \o newer
  IN [hist EXCEPT ![token] = SliceFrom(all, -HistoryKeep)]

\* ORDER BY timestamp DESC LIMIT ?, reversed to oldest-first; prices only
getMarketDataByToken(hist, token, limit) ==
  LET h == hist[token]
      n == IF limit < Len(h) THEN limit ELSE Len(h)
  IN [i \in 1..n |-> h[Len(h) - n + i].price]

\* calculateSMA: 0 for an empty window, else sum / length
calculateSMA(prices) ==
  IF Len(prices) = 0 THEN QInt(0) ELSE Q(SumSeq(prices), Len(prices))

\* ------------------------------------------------------------------------
\* StrategyOrchestrator.checkRebalancing / checkMomentumStrategy
\* ------------------------------------------------------------------------
\* calculateCurrentAllocations()[token] || 0
CurrentAllocation(md, token) ==
  LET t == FindToken(md, token)
  IN IF t = NULL \/ TotalValue(md) = 0 THEN QInt(0)
     ELSE Q(TokenValue(t), TotalValue(md))

\* One iteration of the loop over Object.entries(targetAllocations)
RebalanceEntry(md, p, entry) ==
  LET tokenAddress == entry.token
      targetAllocation == entry.target
      currentAllocation == CurrentAllocation(md, tokenAddress)
      deviation == QAbs(QSub(currentAllocation, targetAllocation))
      total == QInt(TotalValue(md))
      price == md.prices[tokenAddress]
  IN IF ~QGt(deviation, p.rebalanceThreshold) THEN NULL
     ELSE IF QGt(currentAllocation, targetAllocation)
     THEN \* overweight: sell the excess into USDC
          LET excessValue == QMul(QSub(currentAllocation, targetAllocation), total)
          IN IF price = 0 THEN NULL  \* x / 0 * 0 is NaN: the comparison is false
             ELSE LET sellAmount == QDiv(excessValue, QInt(price))
                  IN IF QGe(QMul(sellAmount, QInt(price)), p.minTradeAmount)
                     THEN Decision("sell", tokenAddress, USDC, sellAmount,
                                   "Rebalancing", Q(8, 10), FALSE)
                     ELSE NULL
     ELSE \* underweight: buy the deficit with USDC
          LET deficitValue == QMul(QSub(targetAllocation, currentAllocation), total)
              usdc == FindToken(md, USDC)
          IN IF usdc = NULL \/ TotalValue(md) = 0 THEN NULL  \* usdcBalance is NaN
             ELSE LET usdcBalance == QMul(CurrentAllocation(md, USDC), total)
                  IN IF QGe(deficitValue, p.minTradeAmount) /\ QGe(usdcBalance, deficitValue)
                     THEN Decision("buy", USDC, tokenAddress, deficitValue,
                                   "Rebalancing", Q(8, 10), FALSE)
                     ELSE NULL

\* Variant of RebalanceFrom that stops at the first entry beyond the
\* threshold, whether or not it yields an instruction
RECURSIVE RebalanceFromFirstDeviating(_, _, _)
RebalanceFromFirstDeviating(md, p, i) ==
  IF i > Len(p.targetAllocations) THEN NULL
  ELSE LET entry == p.targetAllocations[i]
           deviation == QAbs(QSub(CurrentAllocation(md, entry.token), entry.target))
       IN IF QGt(deviation, p.rebalanceThreshold) THEN RebalanceEntry(md, p, entry)
          ELSE RebalanceFromFirstDeviating(md, p, i + 1)

RECURSIVE RebalanceFrom(_, _, _)
RebalanceFrom(md, p, i) ==
  IF i > Len(p.targetAllocations) THEN NULL
  ELSE LET r == RebalanceEntry(md, p, p.targetAllocations[i])
       IN IF r # NULL THEN r ELSE RebalanceFrom(md, p, i + 1)

checkRebalancing(md, p) == RebalanceFrom(md, p, 1)

checkMomentumStrategy(md, p) ==
  LET usdcToken == FindToken(md, USDC)
      wethPrice == md.prices[WETH]
  IN IF usdcToken = NULL \/ wethPrice = 0 THEN NULL
     ELSE LET usdcBalance == QInt(usdcToken.amount)
              total == TotalValue(md)
          IN IF total > 0 /\ 2 * TokenValue(usdcToken) > total
                /\ QGt(usdcBalance, p.minTradeAmount)
             THEN LET buyAmount == QMin(QMul(usdcBalance, Q(1, 10)),
                                        QMul(QInt(total), p.maxPositionSize))
                  IN IF QGe(buyAmount, p.minTradeAmount)
                     THEN Decision("buy", USDC, WETH, buyAmount,
                                   "Momentum strategy", Q(6, 10), FALSE)
                     ELSE NULL
             ELSE NULL


\* ------------------------------------------------------------------------
\* TrendFollowingStrategy.checkTrendFollowing
\* ------------------------------------------------------------------------
TrendForToken(md, p, hist, tokenAddress) ==
  LET short == p.trendFollowingShortSmaPeriod
      long == p.trendFollowingLongSmaPeriod
      historicalPrices == getMarketDataByToken(hist, tokenAddress, long)
      shortSMA == calculateSMA(SliceFrom(historicalPrices, -short))
      longSMA == calculateSMA(SliceFrom(historicalPrices, -long))
      prevShortSMA == calculateSMA(Slice(historicalPrices, -(short + 1), -1))
      prevLongSMA == calculateSMA(Slice(historicalPrices, -(long + 1), -1))
      currentPrice == md.prices[tokenAddress]
      minTradeAmount == p.minTradeAmount
  IN IF Len(historicalPrices) < long THEN NULL
     ELSE IF currentPrice = 0 THEN NULL
     ELSE IF QLe(prevShortSMA, prevLongSMA) /\ QGt(shortSMA, longSMA)
     THEN \* golden cross
          LET usdcBalance == QInt(getTokenBalance(md, USDC))
              buyAmount == QMin(QMul(usdcBalance, Q(25, 100)),
                                QMul(QInt(TotalValue(md)), p.maxPositionSize))
          IN IF QGe(usdcBalance, minTradeAmount) /\ QGe(buyAmount, minTradeAmount)
             THEN Decision("buy", USDC, tokenAddress, buyAmount,
                           "Trend Following", Q(75, 100), FALSE)
             ELSE NULL
     ELSE IF QGe(prevShortSMA, prevLongSMA) /\ QLt(shortSMA, longSMA)
     THEN \* death cross
          LET tokenBalance == QInt(getTokenBalance(md, tokenAddress))
              sellAmountUSD == QMul(tokenBalance, QInt(currentPrice))
              sellAmount == QMin(QMul(tokenBalance, Q(4, 10)), tokenBalance)
          IN IF QGt(tokenBalance, QInt(0)) /\ QGe(sellAmountUSD, minTradeAmount)
             THEN Decision("sell", tokenAddress, USDC, sellAmount,
                           "Trend Following", Q(75, 100), FALSE)
             ELSE NULL
     ELSE NULL

\* calculateSMA on doubles: reduce((acc, x) => acc + x.price, 0) / length
RECURSIVE DblSum(_)
DblSum(prices) ==
  IF prices = <<>> THEN DblZero
  ELSE DblAdd(DblSum(SubSeq(prices, 1, Len(prices) - 1)), prices[Len(prices)])

calculateSMAFloat(prices) ==
  IF Len(prices) = 0 THEN DblZero ELSE DblDivInt(DblSum(prices), Len(prices))

\* the double nearest to 0.4
DblTwoFifths == [hi |-> 53687091, lo |-> 26843546, e |-> -54]

\* The loop body of checkTrendFollowing for one token whose prices are
\* fractional: fm is a market in which the repository holds fm.rows rows of
\* the token, all at the double fm.price, and the snapshot prices the token
\* at fm.price and holds fm.amount of it and no USDC.
TrendForTokenFloat(fm, p) ==
  LET short == p.trendFollowingShortSmaPeriod
      long == p.trendFollowingLongSmaPeriod
      n == IF long < fm.rows THEN long ELSE fm.rows
      historicalPrices == [i \in 1..n |-> fm.price]
      shortSMA == calculateSMAFloat(SliceFrom(historicalPrices, -short))
      longSMA == calculateSMAFloat(SliceFrom(historicalPrices, -long))
      prevShortSMA == calculateSMAFloat(Slice(historicalPrices, -(short + 1), -1))
      prevLongSMA == calculateSMAFloat(Slice(historicalPrices, -(long + 1), -1))
      minTradeAmount == DblFromInt(p.minTradeAmount.n)
  IN IF Len(historicalPrices) < long THEN NULL
     ELSE IF DblLe(prevShortSMA, prevLongSMA) /\ DblLt(longSMA, shortSMA)
     THEN NULL  \* golden cross: usdcBalance is 0, below minTradeAmount
     ELSE IF DblLe(prevLongSMA, prevShortSMA) /\ DblLt(shortSMA, longSMA)
     THEN \* death cross
          IF fm.amount > 0 /\ DblLe(minTradeAmount, DblMulInt(fm.price, fm.amount))
          THEN LET part == DblMulInt(DblTwoFifths, fm.amount)
                   all == DblFromInt(fm.amount)
               IN Decision("sell", fm.token, USDC, IF DblLe(part, all) THEN part ELSE all,
                           "Trend Following", Q(75, 100), FALSE)
          ELSE NULL
     ELSE NULL

\* tokensToCheck = [WETH, WBTC]: the first token with a signal wins
checkTrendFollowing(md, p, hist) ==
  LET r == TrendForToken(md, p, hist, WETH)
  IN IF r # NULL THEN r ELSE TrendForToken(md, p, hist, WBTC)

\* ------------------------------------------------------------------------
\* BreakoutStrategy.checkBreakout
\* ------------------------------------------------------------------------
\* calculateVolatility returns stdev / mean; the model carries its square,
\* variance / mean^2 = sum((n*x - S)^2) / (n * S^2), which is rational
\* (prices are positive, so comparing squares compares the values).
calculateVolatilitySq(prices) ==
  LET n == Len(prices)
      S == SumSeq(prices)
      devs == [i \in 1..n |-> (n * prices[i] - S) * (n * prices[i] - S)]
  IN IF n < 2 THEN QInt(0) ELSE Q(SumSeq(devs), n * S * S)

\* Variant of BreakoutForToken without the consolidation test
BreakoutForTokenAnyVolatility(md, p, hist, tokenAddress) ==
  LET historicalPrices == getMarketDataByToken(hist, tokenAddress, p.breakoutLookbackPeriod)
      currentPrice == md.prices[tokenAddress]
      recentPrices == SliceFrom(historicalPrices,
                        -(IF Len(historicalPrices) < 20 THEN Len(historicalPrices) ELSE 20))
      recentHigh == QInt(MaxSeq(recentPrices))
      recentLow == QInt(MinSeq(recentPrices))
      rangeSize == QSub(recentHigh, recentLow)
      upBreakoutLevel == QAdd(recentHigh, QMul(recentHigh, p.breakoutConfirmationFactor))
      downBreakoutLevel == QSub(recentLow, QMul(recentLow, p.breakoutConfirmationFactor))
      minTradeAmount == p.minTradeAmount
      \* Math.min(0.9, 0.7 + strength * 2); strength is +Infinity for an empty range
      Confidence(excess) ==
        IF rangeSize.n = 0 THEN Q(9, 10)
        ELSE QMin(Q(9, 10), QAdd(Q(7, 10), QMul(QDiv(excess, rangeSize), QInt(2))))
  IN IF Len(historicalPrices) < p.breakoutLookbackPeriod THEN NULL
     ELSE IF currentPrice = 0 THEN NULL
     ELSE IF Len(historicalPrices) = 0 THEN NULL  \* lookback 0: max of nothing is -Infinity
     ELSE IF QGt(QInt(currentPrice), upBreakoutLevel)
     THEN LET usdcBalance == QInt(getTokenBalance(md, USDC))
              buyAmount == QMin(QMul(usdcBalance, Q(3, 10)),
                                QMul(QInt(TotalValue(md)), p.maxPositionSize))
          IN IF QGe(usdcBalance, minTradeAmount) /\ QGe(buyAmount, minTradeAmount)
             THEN Decision("buy", USDC, tokenAddress, buyAmount, "Breakout",
                           Confidence(QSub(QInt(currentPrice), upBreakoutLevel)), FALSE)
             ELSE NULL
     ELSE IF QLt(QInt(currentPrice), downBreakoutLevel)
     THEN LET tokenBalance == QInt(getTokenBalance(md, tokenAddress))
              sellAmountUSD == QMul(tokenBalance, QInt(currentPrice))
              sellAmount == QMin(QMul(tokenBalance, Q(5, 10)), tokenBalance)
          IN IF QGt(tokenBalance, QInt(0)) /\ QGe(sellAmountUSD, minTradeAmount)
             THEN Decision("sell", tokenAddress, USDC, sellAmount, "Breakout",
                           Confidence(QSub(downBreakoutLevel, QInt(currentPrice))), FALSE)
             ELSE NULL
     ELSE NULL

BreakoutForToken(md, p, hist, tokenAddress) ==
  LET historicalPrices == getMarketDataByToken(hist, tokenAddress, p.breakoutLookbackPeriod)
      currentPrice == md.prices[tokenAddress]
      thr == p.breakoutVolatilityThreshold
      isConsolidating == QLt(calculateVolatilitySq(historicalPrices), QMul(thr, thr))
      recentPrices == SliceFrom(historicalPrices,
                        -(IF Len(historicalPrices) < 20 THEN Len(historicalPrices) ELSE 20))
      recentHigh == QInt(MaxSeq(recentPrices))
      recentLow == QInt(MinSeq(recentPrices))
      rangeSize == QSub(recentHigh, recentLow)
      upBreakoutLevel == QAdd(recentHigh, QMul(recentHigh, p.breakoutConfirmationFactor))
      downBreakoutLevel == QSub(recentLow, QMul(recentLow, p.breakoutConfirmationFactor))
      minTradeAmount == p.minTradeAmount
      \* Math.min(0.9, 0.7 + strength * 2); strength is +Infinity for an empty range
      Confidence(excess) ==
        IF rangeSize.n = 0 THEN Q(9, 10)
        ELSE QMin(Q(9, 10), QAdd(Q(7, 10), QMul(QDiv(excess, rangeSize), QInt(2))))
  IN IF Len(historicalPrices) < p.breakoutLookbackPeriod THEN NULL
     ELSE IF currentPrice = 0 THEN NULL
     ELSE IF Len(historicalPrices) = 0 THEN NULL  \* lookback 0: max of nothing is -Infinity
     ELSE IF ~isConsolidating THEN NULL
     ELSE IF QGt(QInt(currentPrice), upBreakoutLevel)
     THEN LET usdcBalance == QInt(getTokenBalance(md, USDC))
              buyAmount == QMin(QMul(usdcBalance, Q(3, 10)),
                                QMul(QInt(TotalValue(md)), p.maxPositionSize))
          IN IF QGe(usdcBalance, minTradeAmount) /\ QGe(buyAmount, minTradeAmount)
             THEN Decision("buy", USDC, tokenAddress, buyAmount, "Breakout",
                           Confidence(QSub(QInt(currentPrice), upBreakoutLevel)), FALSE)
             ELSE NULL
     ELSE IF QLt(QInt(currentPrice), downBreakoutLevel)
     THEN LET tokenBalance == QInt(getTokenBalance(md, tokenAddress))
              sellAmountUSD == QMul(tokenBalance, QInt(currentPrice))
              sellAmount == QMin(QMul(tokenBalance, Q(5, 10)), tokenBalance)
          IN IF QGt(tokenBalance, QInt(0)) /\ QGe(sellAmountUSD, minTradeAmount)
             THEN Decision("sell", tokenAddress, USDC, sellAmount, "Breakout",
                           Confidence(QSub(downBreakoutLevel, QInt(currentPrice))), FALSE)
             ELSE NULL
     ELSE NULL

checkBreakout(md, p, hist) ==
  LET r == BreakoutForToken(md, p, hist, WETH)
  IN IF r # NULL THEN r ELSE BreakoutForToken(md, p, hist, WBTC)

\* ------------------------------------------------------------------------
\* MeanReversionStrategy.checkMeanReversion
\* ------------------------------------------------------------------------
MeanReversionForToken(md, p, hist, tokenAddress) ==
  LET historicalPrices == getMarketDataByToken(hist, tokenAddress, p.meanReversionLookbackPeriod)
      sma == calculateSMA(historicalPrices)
      currentPrice == md.prices[tokenAddress]
      thr == p.meanReversionDeviationThreshold
      minTradeAmount == p.minTradeAmount
  IN IF Len(historicalPrices) < p.meanReversionLookbackPeriod THEN NULL
     ELSE IF currentPrice = 0 THEN NULL
     ELSE IF sma.n = 0 THEN NULL  \* lookback 0: deviation is Infinity, no branch is typed
     ELSE LET deviation == QDiv(QSub(QInt(currentPrice), sma), sma)
              absDeviation == QAbs(deviation)
              confidence == QMin(Q(9, 10), QAdd(Q(5, 10), QMul(absDeviation, QInt(2))))
          IN IF ~QGt(absDeviation, thr) THEN NULL
             ELSE IF QLt(deviation, QSub(QInt(0), thr))
             THEN LET usdcBalance == QInt(getTokenBalance(md, USDC))
                      buyAmount == QMin(QMul(usdcBalance, Q(2, 10)),
                                        QMul(QInt(TotalValue(md)), p.maxPositionSize))
                  IN IF QGe(usdcBalance, minTradeAmount) /\ QGe(buyAmount, minTradeAmount)
                     THEN Decision("buy", USDC, tokenAddress, buyAmount,
                                   "Mean Reversion", confidence, FALSE)
                     ELSE NULL
             ELSE IF QGt(deviation, thr)
             THEN LET tokenBalance == QInt(getTokenBalance(md, tokenAddress))
                      sellAmountUSD == QMul(tokenBalance, QInt(currentPrice))
                      sellAmount == QMin(QMul(tokenBalance, Q(3, 10)), tokenBalance)
                  IN IF QGt(tokenBalance, QInt(0)) /\ QGe(sellAmountUSD, minTradeAmount)
                     THEN Decision("sell", tokenAddress, USDC, sellAmount,
                                   "Mean Reversion", confidence, FALSE)
                     ELSE NULL
             ELSE NULL

checkMeanReversion(md, p, hist) ==
  LET r == MeanReversionForToken(md, p, hist, WETH)
  IN IF r # NULL THEN r ELSE MeanReversionForToken(md, p, hist, WBTC)


\* ------------------------------------------------------------------------
\* LossStrategy (lossStrategy.ts)
\* ------------------------------------------------------------------------
\* "no token selected" (lastSelectedToken = null)
NoToken == "none"

lossSelectionCacheTimeout == 600000

\* LossStrategy.findBestLosingToken.  `cg` is what the token-discovery
\* collaborator answers if it is asked: "none" (null), "ok" (a well-formed
\* candidate) or "malformed" (a candidate without priceChange24h).
\* Returns the candidate and the strategy's new cache fields.
findBestLosingToken(ls, nowMs, cg) ==
  IF ls.lastSelectedToken # NoToken /\ nowMs - ls.lastSelectionTime < lossSelectionCacheTimeout
  THEN [token |-> ls.lastSelectedToken, wellFormed |-> TRUE, asked |-> FALSE, state |-> ls]
  ELSE IF cg = "none"
  THEN [token |-> NoToken, wellFormed |-> TRUE, asked |-> TRUE, state |-> ls]
  ELSE [token |-> LOSER, wellFormed |-> (cg = "ok"), asked |-> TRUE,
        state |-> [lastSelectedToken |-> LOSER, lastSelectionTime |-> nowMs]]

\* Variant of LossDecision that marks the instruction as a guaranteed trade
LossDecisionMarked(tokenAddress, buyAmount, reason, confidence) ==
  Decision("buy", USDC, tokenAddress, buyAmount, reason, confidence, TRUE)

\* The instruction object built by checkLossStrategy and createLossDecision:
\* action, fromToken, toToken, amount, reason, confidence and nothing else
LossDecision(tokenAddress, buyAmount, reason, confidence) ==
  Decision("buy", USDC, tokenAddress, buyAmount, reason, confidence, FALSE)

\* Math.min(deficitValue, usdcBalance * 0.9) bought with USDC when the token's
\* allocation is below lossStrategyTargetAllocation
LossBuy(md, p, tokenAddress, reason, confidence) ==
  LET usdcBalance == QInt(getTokenBalance(md, USDC))
      currentAllocation == CurrentAllocation(md, tokenAddress)
      targetAllocation == p.lossStrategyTargetAllocation
      deficitValue == QMul(QSub(targetAllocation, currentAllocation), QInt(TotalValue(md)))
      buyAmount == QMin(deficitValue, QMul(usdcBalance, Q(9, 10)))
  IN IF QLt(currentAllocation, targetAllocation)
        /\ QGe(buyAmount, QInt(10)) /\ QGe(usdcBalance, buyAmount)
     THEN LossDecision(tokenAddress, buyAmount, reason, confidence)
     ELSE NULL

createLossDecision(md, p, tokenAddress) ==
  LossBuy(md, p, tokenAddress, "LOSS STRATEGY FALLBACK", Q(9, 10))

\* Returns [decision, state, asked]
checkLossStrategy(md, p, ls, nowMs, cg) ==
  IF ~p.lossStrategyEnabled THEN [decision |-> NULL, state |-> ls, asked |-> FALSE]
  ELSE LET best == findBestLosingToken(ls, nowMs, cg)
       IN [decision |->
             IF best.token = NoToken THEN createLossDecision(md, p, WETH)
             ELSE IF ~best.wellFormed
             THEN createLossDecision(md, p, WETH)  \* toFixed throws: catch branch
             ELSE LossBuy(md, p, best.token, "LOSS STRATEGY", Q(95, 100)),
           state |-> best.state,
           asked |-> best.asked]

\* ------------------------------------------------------------------------
\* ArbitrageStrategy (arbitrageStrategy.ts): the rotation fallback
\* ------------------------------------------------------------------------
minArbitrageAmount == 10

\* portfolio.tokens.filter(amount > 0 && value >= tradeAmount && token !== USDC)
ArbAvailableTokens(md, tradeAmount) ==
  SelectSeq(md.tokens, LAMBDA t : t.amount > 0 /\ TokenValue(t) >= tradeAmount /\ t.token # USDC)

\* Variant of ShouldBuy that forgets the direction of the last trade
ShouldBuyAlways(arb) == TRUE

\* Line 27: buy after a sell, sell after a buy
ShouldBuy(arb) == arb.lastTradeDirection = "sell"

\* Variant of TradeAmount that goes up to maxArbitrageAmount
TradeAmountUpToMax(tradeCounter) == minArbitrageAmount + (tradeCounter % 6) * 8

\* Line 32: the notional of the call that makes the counter `tradeCounter`
TradeAmount(tradeCounter) == minArbitrageAmount + (tradeCounter % 5) * 8

\* Returns [decision, state] where state = [lastTradeDirection, tradeCounter]
checkArbitrage(md, arb) ==
  LET tradeCounter == arb.tradeCounter + 1
      shouldBuy == ShouldBuy(arb)
      tradeAmount == TradeAmount(tradeCounter)
      usdcBalance == getTokenBalance(md, USDC)
      wethBalance == getTokenBalance(md, WETH)
      wethPrice == md.prices[WETH]
      wbtcBalance == getTokenBalance(md, WBTC)
      wbtcPrice == md.prices[WBTC]
      availableTokens == ArbAvailableTokens(md, tradeAmount)
      randomToken == availableTokens[(tradeCounter % Len(availableTokens)) + 1]
      Ret(d, dir) == [decision |-> d,
                      state |-> [lastTradeDirection |-> dir, tradeCounter |-> tradeCounter]]
  IN IF shouldBuy /\ usdcBalance >= tradeAmount /\ wethPrice > 0
     THEN Ret(Decision("buy", USDC, WETH, QInt(tradeAmount),
                       "Arbitrage Swap", Q(1, 10), FALSE), "buy")
     ELSE IF ~shouldBuy /\ wethBalance > 0 /\ wethPrice > 0
             /\ wethBalance * wethPrice >= tradeAmount
     THEN Ret(Decision("sell", WETH, USDC, Q(tradeAmount, wethPrice),
                       "Arbitrage Swap", Q(1, 10), FALSE), "sell")
     \* Fallback: WBTC
     ELSE IF shouldBuy /\ usdcBalance >= tradeAmount /\ wbtcPrice > 0
     THEN Ret(Decision("buy", USDC, WBTC, QInt(tradeAmount),
                       "Arbitrage Fallback", Q(1, 10), FALSE), "buy")
     ELSE IF ~shouldBuy /\ wbtcBalance > 0 /\ wbtcPrice > 0
             /\ wbtcBalance * wbtcPrice >= tradeAmount
     THEN Ret(Decision("sell", WBTC, USDC, Q(tradeAmount, wbtcPrice),
                       "Arbitrage Fallback", Q(1, 10), FALSE), "sell")
     \* Last resort: any available token
     ELSE IF Len(availableTokens) > 0 /\ md.prices[randomToken.token] > 0
     THEN Ret(Decision("sell", randomToken.token, USDC,
                       Q(tradeAmount, md.prices[randomToken.token]),
                       "Arbitrage Emergency", Q(5, 100), FALSE), "sell")
     ELSE Ret(NULL, arb.lastTradeDirection)

\* ------------------------------------------------------------------------
\* GuaranteedMemeStrategy (strategy.ts): the discovery fallback
\* ------------------------------------------------------------------------
memeSelectionCacheTimeout == 300000

\* findBestSolanaMemeToken; `cg` as for findBestLosingToken
findBestSolanaMemeToken(ms, nowMs, cg) ==
  IF ms.lastSelectedToken # NoToken /\ nowMs - ms.lastSelectionTime < memeSelectionCacheTimeout
  THEN [token |-> ms.lastSelectedToken, wellFormed |-> ms.wellFormed, asked |-> FALSE,
        state |-> ms]
  ELSE IF cg = "none"
  THEN [token |-> NoToken, wellFormed |-> TRUE, asked |-> TRUE, state |-> ms]
  ELSE [token |-> MEME, wellFormed |-> (cg = "ok"), asked |-> TRUE,
        state |-> [lastSelectedToken |-> MEME, lastSelectionTime |-> nowMs,
                   wellFormed |-> (cg = "ok")]]

\* tokens the purchase may be funded from: amount > 0, value >= tradeAmountUSD,
\* not USDC (no holding of the model is SOL)
MemeAvailableTokens(md, tradeAmountUSD) ==
  SelectSeq(md.tokens, LAMBDA t : t.amount > 0 /\ QGe(QInt(TokenValue(t)), tradeAmountUSD)
                                   /\ t.token # USDC)

\* reduce((max, token) => token.value > max.value ? token : max)
RECURSIVE MaxValueToken(_)
MaxValueToken(ts) ==
  IF Len(ts) = 1 THEN ts[1]
  ELSE LET max == MaxValueToken(SubSeq(ts, 1, Len(ts) - 1))
           token == ts[Len(ts)]
       IN IF TokenValue(token) > TokenValue(max) THEN token ELSE max

\* Returns [decision, state, asked]
makeGuaranteedMemeDecision(md, p, ms, nowMs, cg) ==
  IF ~p.guaranteedMemeTradeEnabled THEN [decision |-> NULL, state |-> ms, asked |-> FALSE]
  ELSE LET best == findBestSolanaMemeToken(ms, nowMs, cg)
           usdcBalance == QInt(getTokenBalance(md, USDC))
           tradeAmountUSD == p.guaranteedMemeTradeAmountUSD
           availableTokens == MemeAvailableTokens(md, tradeAmountUSD)
           tokenToSell == MaxValueToken(availableTokens)
           sellAmountUSD == QMin(QMul(tradeAmountUSD, Q(11, 10)),
                                 QMul(QInt(TokenValue(tokenToSell)), Q(1, 10)))
       IN [decision |->
             IF best.token = NoToken THEN NULL
             ELSE IF ~best.wellFormed THEN NULL  \* toFixed throws: catch branch
             ELSE IF QGe(usdcBalance, tradeAmountUSD)
             THEN Decision("buy", USDC, best.token, tradeAmountUSD,
                           "GUARANTEED MEME", Q(1, 100), TRUE)
             ELSE IF Len(availableTokens) > 0
             THEN Decision("sell", tokenToSell.token, USDC,
                           QDiv(sellAmountUSD, QInt(tokenToSell.price)),
                           "GUARANTEED MEME PREP", Q(1, 100), TRUE)
             ELSE NULL,
           state |-> best.state,
           asked |-> best.asked]


\* ------------------------------------------------------------------------
\* StrategyOrchestrator.makeDecision
\* ------------------------------------------------------------------------
\* saveCurrentMarketData: every standard token and every portfolio token with
\* a truthy price is written with the snapshot's timestamp
RECURSIVE SaveAll(_, _, _)
SaveAll(hist, md, toks) ==
  IF toks = <<>> THEN hist
  ELSE LET tokenAddress == Head(toks)
           price == md.prices[tokenAddress]
       IN With(IF price # 0 THEN saveMarketData(hist, md.timestamp, tokenAddress, price)
               ELSE hist,
               LAMBDA saved : SaveAll(saved, md, Tail(toks)))

saveCurrentMarketData(hist, md) ==
  SaveAll(hist, md, TOKENS \o [i \in 1..Len(md.tokens) |-> md.tokens[i].token])

\* Names of the decision sources, in the priority order of the cascade
CascadeOrder == <<"rebalance", "trend", "breakout", "meanReversion", "momentum",
                  "arbitrage", "meme">>

\* One entry of the log of a makeDecision call: a decision source that was
\* consulted with what it returned, or the write-through ("save", no result)
Call(source, result) == [source |-> source, result |-> result]

\* Variant of SignalEvaluators that asks the momentum fallback before the
\* mean-reversion evaluator
SignalEvaluatorsMomentumEarly(md, p, hist) ==
  LET rebalanceDecision == checkRebalancing(md, p)
      trendDecision == checkTrendFollowing(md, p, hist)
      breakoutDecision == checkBreakout(md, p, hist)
      meanReversionDecision == checkMeanReversion(md, p, hist)
      momentumDecision == checkMomentumStrategy(md, p)
      first3 == <<Call("rebalance", rebalanceDecision), Call("trend", trendDecision),
                  Call("breakout", breakoutDecision)>>
  IN IF rebalanceDecision # NULL
     THEN [decision |-> rebalanceDecision, calls |-> SubSeq(first3, 1, 1)]
     ELSE IF trendDecision # NULL
     THEN [decision |-> trendDecision, calls |-> SubSeq(first3, 1, 2)]
     ELSE IF breakoutDecision # NULL
     THEN [decision |-> breakoutDecision, calls |-> first3]
     ELSE IF momentumDecision # NULL
     THEN [decision |-> momentumDecision,
           calls |-> first3 \o <<Call("momentum", momentumDecision)>>]
     ELSE [decision |-> meanReversionDecision,
           calls |-> first3 \o <<Call("momentum", momentumDecision),
                                 Call("meanReversion", meanReversionDecision)>>]

\* Steps 87..120 of makeDecision: the five signal evaluators one after the
\* other, on the history as saved by this call.  Returns [decision, calls]
SignalEvaluators(md, p, hist) ==
  LET Ret(results) ==
        [decision |-> results[Len(results)],
         calls |-> [i \in 1..Len(results) |-> Call(CascadeOrder[i], results[i])]]
  IN With(checkRebalancing(md, p), LAMBDA rebalanceDecision :
       IF rebalanceDecision # NULL THEN Ret(<<rebalanceDecision>>)
       ELSE With(checkTrendFollowing(md, p, hist), LAMBDA trendDecision :
         IF trendDecision # NULL THEN Ret(<<NULL, trendDecision>>)
         ELSE With(checkBreakout(md, p, hist), LAMBDA breakoutDecision :
           IF breakoutDecision # NULL THEN Ret(<<NULL, NULL, breakoutDecision>>)
           ELSE With(checkMeanReversion(md, p, hist), LAMBDA meanReversionDecision :
             IF meanReversionDecision # NULL
             THEN Ret(<<NULL, NULL, NULL, meanReversionDecision>>)
             ELSE With(checkMomentumStrategy(md, p), LAMBDA momentumDecision :
               Ret(<<NULL, NULL, NULL, NULL, momentumDecision>>))))))

\* Variant of GuaranteedFallbacks that asks the discovery fallback first
GuaranteedFallbacksMemeFirst(md, p, st, nowMs, env) ==
  LET arbitrage == checkArbitrage(md, st.arb)
      meme == makeGuaranteedMemeDecision(md, p, st.ms, nowMs, env.cgMeme)
  IN IF meme.decision # NULL
     THEN [decision |-> meme.decision, calls |-> <<Call("meme", meme.decision)>>,
           arb |-> st.arb, ms |-> meme.state]
     ELSE [decision |-> arbitrage.decision,
           calls |-> <<Call("meme", NULL), Call("arbitrage", arbitrage.decision)>>,
           arb |-> arbitrage.state, ms |-> meme.state]

\* Steps 122..138 of makeDecision: the rotation fallback, then the discovery
\* fallback.  st = [hist, arb, ls, ms]; returns [decision, calls, arb, ms]
GuaranteedFallbacks(md, p, st, nowMs, env) ==
  With(checkArbitrage(md, st.arb), LAMBDA arbitrage :
    IF arbitrage.decision # NULL
    THEN [decision |-> arbitrage.decision,
          calls |-> <<Call("arbitrage", arbitrage.decision)>>,
          arb |-> arbitrage.state, ms |-> st.ms]
    ELSE With(makeGuaranteedMemeDecision(md, p, st.ms, nowMs, env.cgMeme), LAMBDA meme :
           [decision |-> meme.decision,
            calls |-> <<Call("arbitrage", NULL), Call("meme", meme.decision)>>,
            arb |-> arbitrage.state, ms |-> meme.state]))

\* Steps 87..138: the cascade proper.  Returns [decision, calls, arb, ms]
Cascade(md, p, st, nowMs, env) ==
  With(SignalEvaluators(md, p, st.hist), LAMBDA s :
    IF s.decision # NULL
    THEN [decision |-> s.decision, calls |-> s.calls, arb |-> st.arb, ms |-> st.ms]
    ELSE With(GuaranteedFallbacks(md, p, st, nowMs, env), LAMBDA f :
           [decision |-> f.decision, calls |-> s.calls \o f.calls,
            arb |-> f.arb, ms |-> f.ms]))

\* Variant of LossOn that ignores the advisory mode
LossOnIgnoringLlm(p) == p.lossStrategyEnabled

\* Line 70: the loss-seeking evaluator runs only if advisory mode is off
LossOn(p) == p.lossStrategyEnabled /\ ~p.llmEnabled

\* env = [llm, cgLoss, cgMeme]: what the advisory and token-discovery
\* collaborators answer in this call.
\* Returns [decision, calls, hist, arb, ls, ms]
makeDecision(md, p, st, nowMs, env) ==
  IF p.llmEnabled /\ env.llm # NULL
  THEN [decision |-> env.llm, calls |-> <<Call("llm", env.llm)>>,
        hist |-> st.hist, arb |-> st.arb, ls |-> st.ls, ms |-> st.ms]
  ELSE LET pre == (IF p.llmEnabled THEN <<Call("llm", env.llm)>> ELSE <<>>)
                  \o <<Call("save", NULL)>>
           NoLoss == [decision |-> NULL, state |-> st.ls]
       IN With(saveCurrentMarketData(st.hist, md), LAMBDA hist1 :
          With(IF LossOn(p) THEN checkLossStrategy(md, p, st.ls, nowMs, env.cgLoss)
               ELSE NoLoss, LAMBDA loss :
            IF LossOn(p) /\ loss.decision # NULL
            THEN [decision |-> loss.decision,
                  calls |-> pre \o <<Call("loss", loss.decision)>>,
                  hist |-> hist1, arb |-> st.arb, ls |-> loss.state, ms |-> st.ms]
            ELSE With(Cascade(md, p, [st EXCEPT !.hist = hist1], nowMs, env), LAMBDA c :
                   [decision |-> c.decision,
                    calls |-> pre \o (IF LossOn(p) THEN <<Call("loss", NULL)>> ELSE <<>>)
                              \o c.calls,
                    hist |-> hist1, arb |-> c.arb, ls |-> loss.state, ms |-> c.ms])))

\* ------------------------------------------------------------------------
\* RiskManager (marketDataRepository.ts, the version built with a
\* StrategyParamsManager)
\* ------------------------------------------------------------------------
\* constructor defaults; stopLossThreshold is read by no check
DefaultRiskParams ==
  [maxDailyLoss |-> Q(15, 100),
   maxPositionSize |-> Q(50, 100),
   minTradeAmount |-> QInt(10),
   maxTradesPerHour |-> 60,
   maxDrawdown |-> Q(30, 100)]

\* 60 * 60 * 1000
HourMs == 3600000
\* isMaxDrawdownExceeded: the fixed reference starting value
initialValue == 10000

\* Variant of isDailyLossExceeded that tests the sign the other way round
isDailyLossExceededOnGain(rp, agentState) ==
  LET currentDailyLoss == QDiv(QAbs(agentState.dailyPnL), QInt(100))
  IN QGt(agentState.dailyPnL, QInt(0)) /\ QGt(currentDailyLoss, rp.maxDailyLoss)

isDailyLossExceeded(rp, agentState) ==
  LET currentDailyLoss == QDiv(QAbs(agentState.dailyPnL), QInt(100))
  IN QLt(agentState.dailyPnL, QInt(0)) /\ QGt(currentDailyLoss, rp.maxDailyLoss)

\* NaN: every comparison with it is false
QNaN == [n |-> 0, d |-> 0]

\* USD value of the trade; a missing price makes it NaN
TradeValueUSD(decision, md) ==
  IF decision.action = "buy" THEN decision.amount
  ELSE IF md.prices[decision.fromToken] = 0 THEN QNaN
  ELSE QMul(decision.amount, QInt(md.prices[decision.fromToken]))

isTradeAmountValid(rp, decision, md) ==
  LET tradeValueUSD == TradeValueUSD(decision, md)
  IN tradeValueUSD # QNaN /\ QGe(tradeValueUSD, rp.minTradeAmount)

\* Variant of isPositionSizeValid that lets every sell through
isPositionSizeValidBuysOnly(rp, decision, md) ==
  LET maxPositionValue == QMul(QInt(TotalValue(md)), rp.maxPositionSize)
      held == FindToken(md, decision.toToken)
      currentTokenValue == IF held = NULL THEN QInt(0) ELSE QInt(TokenValue(held))
  IN \/ decision.action # "buy"
     \/ QLe(QAdd(currentTokenValue, decision.amount), maxPositionValue)

isPositionSizeValid(rp, decision, md) ==
  LET maxPositionValue == QMul(QInt(TotalValue(md)), rp.maxPositionSize)
      tradeValue == TradeValueUSD(decision, md)
      targetToken == IF decision.action = "buy" THEN decision.toToken ELSE decision.fromToken
      held == FindToken(md, targetToken)
      currentTokenValue == IF held = NULL THEN QInt(0) ELSE QInt(TokenValue(held))
      newPositionValue == IF decision.action = "buy" THEN QAdd(currentTokenValue, tradeValue)
                          ELSE QSub(currentTokenValue, tradeValue)
  IN tradeValue # QNaN /\ QLe(newPositionValue, maxPositionValue)

\* Variant of hasSufficientBalance that asks for more than the buffered amount
hasSufficientBalanceStrict(decision, md) ==
  LET fromToken == FindToken(md, decision.fromToken)
  IN fromToken # NULL /\ QGt(QInt(fromToken.amount), QMul(decision.amount, Q(101, 100)))

\* Variant of hasSufficientBalance with the buffer on the side of the holding
hasSufficientBalanceLenient(decision, md) ==
  LET fromToken == FindToken(md, decision.fromToken)
  IN fromToken # NULL /\ QGe(QMul(QInt(fromToken.amount), Q(101, 100)), decision.amount)

\* availableAmount >= requiredAmount * (1 + 0.01)
hasSufficientBalance(decision, md) ==
  LET fromToken == FindToken(md, decision.fromToken)
  IN fromToken # NULL /\ QGe(QInt(fromToken.amount), QMul(decision.amount, Q(101, 100)))

\* tradeHistory holds the timestamps of the recorded trades (the recorded
\* amount is read by nothing).  Returns [valid, tradeHistory]: the check drops
\* the entries older than one hour from the window as a side effect.
\* Variant of isTradeFrequencyValid that empties the window after counting
isTradeFrequencyValidClearing(rp, th, nowMs) ==
  LET kept == SelectSeq(th, LAMBDA ts : ts > nowMs - HourMs)
  IN [valid |-> Len(kept) < rp.maxTradesPerHour, tradeHistory |-> <<>>]

\* Variant of isTradeFrequencyValid in which recorded trades never expire
isTradeFrequencyValidNoExpiry(rp, th, nowMs) ==
  [valid |-> Len(th) < rp.maxTradesPerHour, tradeHistory |-> th]

\* Variant of isTradeFrequencyValid that counts the recent trades and
\* leaves this.tradeHistory as it is
isTradeFrequencyValidUnpruned(rp, th, nowMs) ==
  [valid |-> Len(SelectSeq(th, LAMBDA ts : ts > nowMs - HourMs)) < rp.maxTradesPerHour,
   tradeHistory |-> th]

isTradeFrequencyValid(rp, th, nowMs) ==
  LET kept == SelectSeq(th, LAMBDA ts : ts > nowMs - HourMs)
  IN [valid |-> Len(kept) < rp.maxTradesPerHour, tradeHistory |-> kept]

isMaxDrawdownExceeded(rp, md) ==
  LET currentDrawdown == Q(initialValue - TotalValue(md), initialValue)
  IN QGt(currentDrawdown, rp.maxDrawdown)

\* recordTrade
recordTrade(th, nowMs) == Append(th, nowMs)

\* Variant of shouldStopTrading: only the two limits stop a cycle
shouldStopTradingOnLimits(rp, agentState, md) ==
  \/ isDailyLossExceeded(rp, agentState)
  \/ isMaxDrawdownExceeded(rp, md)

shouldStopTrading(rp, agentState, md) ==
  \/ ~agentState.isActive
  \/ isDailyLossExceeded(rp, agentState)
  \/ isMaxDrawdownExceeded(rp, md)

Accept == [isValid |-> TRUE, reason |-> ""]
\* Variant of Reject that drops the reason
RejectSilent(reason) == [isValid |-> FALSE, reason |-> ""]
Reject(reason) == [isValid |-> FALSE, reason |-> reason]

\* performMinimalRiskChecks is called by validateTrade but its body is not in
\* the repository's files; it is modelled from the specification's words:
\* "only a minimal non-empty-balance check runs".
performMinimalRiskChecks(decision, md) ==
  IF getTokenBalance(md, decision.fromToken) > 0 THEN Accept
  ELSE Reject("Minimal check failed")

\* Lines 383..416: the instruction's marker or a mode flag selects the
\* minimal path
BypassesRiskChecks(decision, p) ==
  \/ decision.isGuaranteedMemeTrade
  \/ (p.llmEnabled /\ p.llmObjective = "maximize_loss")
  \/ p.lossStrategyEnabled

\* Variant of OrderedChecks that looks at the balance before the amount
OrderedChecksBalanceEarly(decision, md, agentState, rp, th, nowMs) ==
  LET freq == isTradeFrequencyValid(rp, th, nowMs)
      Ret(r, h) == [isValid |-> r.isValid, reason |-> r.reason, tradeHistory |-> h]
  IN IF ~agentState.isActive THEN Ret(Reject("Agent is not active"), th)
     ELSE IF isDailyLossExceeded(rp, agentState)
     THEN Ret(Reject("Daily loss limit exceeded"), th)
     ELSE IF ~hasSufficientBalance(decision, md)
     THEN Ret(Reject("Insufficient balance for trade"), th)
     ELSE IF ~isTradeAmountValid(rp, decision, md)
     THEN Ret(Reject("Trade amount below minimum threshold"), th)
     ELSE IF ~isPositionSizeValid(rp, decision, md)
     THEN Ret(Reject("Trade would exceed maximum position size"), th)
     ELSE IF ~freq.valid
     THEN Ret(Reject("Trade frequency limit exceeded"), freq.tradeHistory)
     ELSE IF isMaxDrawdownExceeded(rp, md)
     THEN Ret(Reject("Maximum drawdown threshold reached"), freq.tradeHistory)
     ELSE Ret(Accept, freq.tradeHistory)

\* Lines 418..459: the seven checks of the normal path.
\* Returns [isValid, reason, tradeHistory]
OrderedChecks(decision, md, agentState, rp, th, nowMs) ==
  LET freq == isTradeFrequencyValid(rp, th, nowMs)
      Ret(r, h) == [isValid |-> r.isValid, reason |-> r.reason, tradeHistory |-> h]
  IN IF ~agentState.isActive THEN Ret(Reject("Agent is not active"), th)
     ELSE IF isDailyLossExceeded(rp, agentState)
     THEN Ret(Reject("Daily loss limit exceeded"), th)
     ELSE IF ~isTradeAmountValid(rp, decision, md)
     THEN Ret(Reject("Trade amount below minimum threshold"), th)
     ELSE IF ~isPositionSizeValid(rp, decision, md)
     THEN Ret(Reject("Trade would exceed maximum position size"), th)
     ELSE IF ~hasSufficientBalance(decision, md)
     THEN Ret(Reject("Insufficient balance for trade"), th)
     ELSE IF ~freq.valid
     THEN Ret(Reject("Trade frequency limit exceeded"), freq.tradeHistory)
     ELSE IF isMaxDrawdownExceeded(rp, md)
     THEN Ret(Reject("Maximum drawdown threshold reached"), freq.tradeHistory)
     ELSE Ret(Accept, freq.tradeHistory)

\* Variant of validateTrade in which loss-seeking mode does not bypass
validateTradeLossModeChecked(decision, md, agentState, p, rp, th, nowMs) ==
  IF decision.isGuaranteedMemeTrade \/ (p.llmEnabled /\ p.llmObjective = "maximize_loss")
  THEN LET r == performMinimalRiskChecks(decision, md)
       IN [isValid |-> r.isValid, reason |-> r.reason, tradeHistory |-> th]
  ELSE OrderedChecks(decision, md, agentState, rp, th, nowMs)

\* validateTrade with the parameters p read from the StrategyParamsManager.
\* Returns [isValid, reason, tradeHistory]
validateTrade(decision, md, agentState, p, rp, th, nowMs) ==
  IF BypassesRiskChecks(decision, p)
  THEN LET r == performMinimalRiskChecks(decision, md)
       IN [isValid |-> r.isValid, reason |-> r.reason, tradeHistory |-> th]
  ELSE OrderedChecks(decision, md, agentState, rp, th, nowMs)

\* ------------------------------------------------------------------------
\* State
\* ------------------------------------------------------------------------
VARIABLES
  params,      \* StrategyParamsManager.params
  history,     \* market_data table: token -> points [ts, price], oldest first
  arbState,    \* ArbitrageStrategy: lastTradeDirection, tradeCounter
  lossState,   \* LossStrategy: lastSelectedToken, lastSelectionTime
  memeState,   \* GuaranteedMemeStrategy: lastSelectedToken, lastSelectionTime
  now,         \* clock, in ticks of one trade interval
  lastCall     \* the makeDecision call that has just returned, if that is the
               \* latest operation: its snapshot, the log of the sources it
               \* consulted in order, the returned decision (else NoCall);
               \* kept for the orchestrator called on its own

\* Repeated use of the rotation fallback on its own
VARIABLES
  arbMd,       \* the snapshot handed to checkArbitrage (static between changes)
  arbLast,     \* what the latest checkArbitrage call on arbMd returned
  arbPrev      \* action of the non-null instruction before arbLast on arbMd

\* RiskManager
VARIABLES
  riskParams,    \* RiskManager.riskParams
  tradeHistory,  \* RiskManager.tradeHistory: timestamps of the recorded trades
  riskLast       \* the validateTrade call that has just returned, if that is
                 \* the latest operation: its arguments, the window before the
                 \* call and the result (else NoValidation)

\* TradingAgent
VARIABLES
  agentState,    \* TradingAgent.agentState: isActive, totalTrades, dailyPnL
  cycle,         \* the scheduled trading cycle: where it stands, its
                 \* snapshot (until validated) and instruction, and what
                 \* its latest run did,
                 \* in order: validateTrade result, call of the execution
                 \* collaborator, totalTrades increment, recordTrade call
  cmd,           \* the processExternalCommand call: the same, and how many
                 \* were submitted
  paused,        \* whether the latest of pauseTrading / resumeTrading to
                 \* complete was pauseTrading
  isRunning,     \* TradingAgent.isRunning
  loops,         \* the runTradingLoop invocations made so far, each with
                 \* where it stands (start()'s health check, inside
                 \* executeTradingCycle, in sleep, or returned) and how its
                 \* latest finished cycle ended
  pending        \* the makeDecision call awaited by the agent, when it is
                 \* followed across its awaits: where it is suspended, its
                 \* snapshot, the params object of line 43, and the values
                 \* getParams() returned to it so far, in order

orchVars == <<params, history, lossState, memeState, now, lastCall>>
arbVars == <<arbMd, arbLast, arbPrev>>
riskVars == <<riskParams, tradeHistory, riskLast>>
\* Components followed on their own
VARIABLES
  store          \* StrategyParamsManager with the objects it allocates: the
                 \* params objects, the nested targetAllocations objects,
                 \* which object this.params refers to, the snapshots
                 \* getParams has handed out (each with the contents it had
                 \* then) and the latest operation with its argument
VARIABLES
  server         \* CommandServer, POST /command: the body of the latest
                 \* request, the status and error of its response, and the
                 \* arguments of the processExternalCommand calls it made

agentVars == <<agentState, cycle, cmd, paused, pending, isRunning, loops>>
VARIABLES
  api            \* RecallApiClient with the clock: Date.now(), lastRequestTime,
                 \* the requests whose interceptor is suspended at its
                 \* setTimeout (each with the time its timer is due), and the
                 \* times at which the interceptor released a request

VARIABLES
  finder         \* the selection caches of LossStrategy and
                 \* GuaranteedMemeStrategy (lastSelectedToken,
                 \* lastSelectionTime) with the clock, and the calls of
                 \* findBestLosingToken, findBestSolanaMemeToken and resetState
                 \* made so far: when, whether the collaborator was queried,
                 \* and the contract address returned

componentVars == <<store, server, api, finder>>
\* everything but one component
besidesStore == <<orchVars, arbState, arbVars, riskVars, agentVars, server, api, finder>>
besidesServer == <<orchVars, arbState, arbVars, riskVars, agentVars, store, api, finder>>
besidesApi == <<orchVars, arbState, arbVars, riskVars, agentVars, store, server, finder>>
besidesFinder == <<orchVars, arbState, arbVars, riskVars, agentVars, store, server, api>>
vars == <<orchVars, arbState, arbVars, riskVars, agentVars, componentVars>>

\* ------------------------------------------------------------------------
\* StrategyParamsManager as objects and references (strategyParams.ts
\* 98..114; specification SpecStore)
\* ------------------------------------------------------------------------
\* params objects allocated in a behaviour
MaxObjects == 3

\* three of the keys of StrategyParams: a number, a flag and the one whose
\* value is an object
ParamKeys == {"rebalanceThreshold", "llmEnabled", "targetAllocations"}

\* request bodies: every key with a value
FullBodies ==
  {[k \in ParamKeys |-> CASE k = "rebalanceThreshold" -> thr
                          [] k = "llmEnabled" -> en
                          [] OTHER -> ta] :
     thr \in {1, 5}, en \in BOOLEAN, ta \in {<<40, 35, 25>>, <<20, 50, 30>>}}

\* Partial<StrategyParams> as parsed from a request body
PartialBodies == {[k \in K |-> b[k]] : b \in FullBodies, K \in SUBSET ParamKeys}

NoOperation == [op |-> "none", arg |-> [k \in {} |-> 0], before |-> [k \in {} |-> 0]]

\* what an object holds when its references are followed
Contents(st, o) ==
  [k \in DOMAIN o |-> IF k = "targetAllocations" THEN st.allocations[o[k]] ELSE o[k]]

\* the object literal of a parsed body: nested objects are new objects.
\* Returns [store, object]
Parsed(st, body) ==
  IF "targetAllocations" \in DOMAIN body
  THEN [store |-> [st EXCEPT !.allocations = Append(@, body["targetAllocations"])],
        object |-> [k \in DOMAIN body |-> IF k = "targetAllocations"
                                           THEN Len(st.allocations) + 1 ELSE body[k]]]
  ELSE [store |-> st, object |-> body]

\* Variant of getParams that returns this.params itself
getParamsAliased(st) == [store |-> st, ref |-> st.params]

\* return { ...this.params }: a new object with the same values, references
\* included. Returns [store, ref]
getParams(st) ==
  [store |-> [st EXCEPT !.objects = Append(@, st.objects[st.params])],
   ref |-> Len(st.objects) + 1]

\* this.params = { ...this.params, ...newParams }
updateParams(st, newParams) ==
  LET old == st.objects[st.params]
      merged == [k \in DOMAIN old \cup DOMAIN newParams |->
                   IF k \in DOMAIN newParams THEN newParams[k] ELSE old[k]]
  IN [st EXCEPT !.objects = Append(@, merged), !.params = Len(st.objects) + 1]

\* this.params[key] = value
setParam(st, key, value) ==
  [st EXCEPT !.objects[st.params] =
     [k \in DOMAIN @ \cup {key} |-> IF k = key THEN value ELSE @[k]]]

\* the manager after construction: { ...getDefaultParams(), ...initialParams }
StoreInit ==
  store = [objects |-> << [k \in ParamKeys |-> CASE k = "rebalanceThreshold" -> 1
                                                 [] k = "llmEnabled" -> FALSE
                                                 [] OTHER -> 1] >>,
           allocations |-> << <<40, 35, 25>> >>,
           params |-> 1,
           handed |-> <<>>,
           last |-> NoOperation]


\* contents of this.params
CurrentContents == Contents(store, store.objects[store.params])

\* a caller takes a snapshot
GetParams ==
  /\ Len(store.objects) < MaxObjects
  /\ \E r \in {getParams(store)} :
       store' = [r.store EXCEPT
                   !.handed = Append(@, [ref |-> r.ref,
                                         contents |-> Contents(r.store, r.store.objects[r.ref])]),
                   !.last = [op |-> "getParams", arg |-> NoOperation.arg,
                             before |-> CurrentContents]]
  /\ UNCHANGED besidesStore

\* updateStrategyParams(body)
UpdateParams ==
  /\ Len(store.objects) < MaxObjects
  /\ \E body \in PartialBodies :
       \E parsed \in {Parsed(store, body)} :
         store' = [updateParams(parsed.store, parsed.object) EXCEPT
                     !.last = [op |-> "updateParams", arg |-> body,
                               before |-> CurrentContents]]
  /\ UNCHANGED besidesStore

\* toggleLLMStrategy(enable), setParam of a number
SetParam ==
  /\ \E body \in {b \in PartialBodies : DOMAIN b \in {{"llmEnabled"}, {"rebalanceThreshold"}}} :
       \E key \in DOMAIN body :
         store' = [setParam(store, key, body[key]) EXCEPT
                     !.last = [op |-> "setParam", arg |-> body,
                               before |-> CurrentContents]]
  /\ UNCHANGED besidesStore

StoreNext ==
  \/ GetParams
  \/ UpdateParams
  \/ SetParam

\* ------------------------------------------------------------------------
\* CommandServer, POST /command (commandServer.ts 43..72, 298..323;
\* specification SpecServer)
\* ------------------------------------------------------------------------
\* JSON values of a request body; a key the body does not have reads as
\* undefined
Undefined == [t |-> "undefined", s |-> "", n |-> QInt(0)]
JsonNull == [t |-> "null", s |-> "", n |-> QInt(0)]
JsonString(str) == [t |-> "string", s |-> str, n |-> QInt(0)]
JsonNumber(q) == [t |-> "number", s |-> "", n |-> q]

\* !value
Falsy(v) ==
  \/ v.t \in {"undefined", "null"}
  \/ v.t = "string" /\ v.s = ""
  \/ v.t = "number" /\ v.n = QInt(0)

requiredFields == <<"action", "fromToken", "toToken", "amount", "reason">>

BodyKeys == {"action", "fromToken", "toToken", "amount", "reason", "confidence"}

\* values a client sends under each key
ValuesSent(k) ==
  CASE k = "action" -> {Undefined, JsonString("buy"), JsonString("hold"), JsonString("swap"),
                        JsonString("")}
    [] k = "fromToken" -> {Undefined, JsonString("USDC"), JsonString("")}
    [] k = "toToken" -> {Undefined, JsonString("WETH")}
    [] k = "amount" -> {Undefined, JsonNumber(QInt(5)), JsonNumber(QInt(0)),
                        JsonNumber(QInt(-5)), JsonString("5")}
    [] k = "reason" -> {Undefined, JsonString("Command"), JsonString("")}
    [] OTHER -> {Undefined, JsonNull, JsonString("0.5"), JsonNumber(QInt(0)),
                 JsonNumber(Q(1, 2)), JsonNumber(QInt(1)), JsonNumber(Q(3, 2)),
                 JsonNumber(Q(-1, 2))}

RequestBodies ==
  {[k \in BodyKeys |-> CASE k = "action" -> a [] k = "fromToken" -> f [] k = "toToken" -> t
                          [] k = "amount" -> m [] k = "reason" -> r [] OTHER -> c] :
     a \in ValuesSent("action"), f \in ValuesSent("fromToken"), t \in ValuesSent("toToken"),
     m \in ValuesSent("amount"), r \in ValuesSent("reason"), c \in ValuesSent("confidence")}

Invalid(error) == [isValid |-> FALSE, error |-> error]

\* first of requiredFields whose value is falsy, 0 if there is none
FirstFalsyField(decision) ==
  LET falsy == {i \in 1..Len(requiredFields) : Falsy(decision[requiredFields[i]])}
  IN IF falsy = {} THEN 0 ELSE CHOOSE i \in falsy : \A j \in falsy : i <= j

\* Variant of validateTradingDecision that asks only for the required
\* fields to be there
validateTradingDecisionPresence(decision) ==
  IF \E i \in 1..Len(requiredFields) : decision[requiredFields[i]] = Undefined
  THEN Invalid("Missing required field")
  ELSE IF decision["action"] \notin {JsonString("buy"), JsonString("sell"), JsonString("hold")}
  THEN Invalid("Invalid action. Must be buy, sell, or hold")
  ELSE IF decision["amount"].t # "number" \/ QLe(decision["amount"].n, QInt(0))
  THEN Invalid("Amount must be a positive number")
  ELSE IF /\ decision["confidence"].t = "number"
          /\ (QLt(decision["confidence"].n, QInt(0)) \/ QGt(decision["confidence"].n, QInt(1)))
  THEN Invalid("Confidence must be a number between 0 and 1")
  ELSE [isValid |-> TRUE, error |-> ""]

\* validateTradingDecision of a parsed body (an object: express.json())
validateTradingDecision(decision) ==
  IF FirstFalsyField(decision) # 0
  THEN Invalid("Missing required field")
  ELSE IF decision["action"] \notin {JsonString("buy"), JsonString("sell"), JsonString("hold")}
  THEN Invalid("Invalid action. Must be buy, sell, or hold")
  ELSE IF decision["amount"].t # "number" \/ QLe(decision["amount"].n, QInt(0))
  THEN Invalid("Amount must be a positive number")
  ELSE IF /\ decision["confidence"] # Undefined
          /\ \/ decision["confidence"].t # "number"
             \/ QLt(decision["confidence"].n, QInt(0))
             \/ QGt(decision["confidence"].n, QInt(1))
  THEN Invalid("Confidence must be a number between 0 and 1")
  ELSE [isValid |-> TRUE, error |-> ""]

ServerInit ==
  server = [body |-> [k \in BodyKeys |-> Undefined], status |-> 0, error |-> "",
            calls |-> <<>>]

\* ------------------------------------------------------------------------
\* RecallApiClient: the rate-limiting request interceptor
\* (specification SpecApi)
\* ------------------------------------------------------------------------

\* private minRequestInterval: number = 1000
minRequestInterval == 1000
\* granularity of the clock, in milliseconds
ApiTick == 500
\* Date.now() when the client is constructed (lastRequestTime is 0, so the
\* first request is never delayed)
StartClock == 2000
MaxClock == 5000
MaxRequests == 4

ApiInit ==
  api = [clock |-> StartClock, lastRequestTime |-> 0, started |-> 0,
         sleeping |-> {}, issued |-> <<>>]

\* const delay = this.minRequestInterval - timeSinceLastRequest
Delay(a) == minRequestInterval - (a.clock - a.lastRequestTime)

\* this.lastRequestTime = Date.now(); return config
Release(a) ==
  [a EXCEPT !.lastRequestTime = a.clock, !.issued = Append(@, a.clock)]

\* a request is started (client.get / client.post): the interceptor runs up
\* to its await, or to its end when no delay is due.  The requests that
\* DataIngestor.getMarketData starts in its for loop run their interceptors
\* one after another at the same Date.now()
StartRequest ==
  /\ api.started < MaxRequests
  /\ api' = With([api EXCEPT !.started = @ + 1],
                 LAMBDA a :
                   IF a.clock - a.lastRequestTime < minRequestInterval
                   THEN [a EXCEPT !.sleeping = @ \cup {[id |-> a.started,
                                                         due |-> a.clock + Delay(a)]}]
                   ELSE Release(a))
  /\ UNCHANGED besidesApi

\* the timer of a suspended interceptor fires, not before it is due
TimerFires ==
  /\ \E t \in api.sleeping :
       /\ api.clock >= t.due
       /\ api' = Release([api EXCEPT !.sleeping = @ \ {t}])
  /\ UNCHANGED besidesApi

\* time passes
ClockTick ==
  /\ api.clock < MaxClock
  /\ api' = [api EXCEPT !.clock = @ + ApiTick]
  /\ UNCHANGED besidesApi

ApiNext ==
  \/ StartRequest
  \/ TimerFires
  \/ ClockTick

\* ------------------------------------------------------------------------
\* The selection caches of LossStrategy and GuaranteedMemeStrategy
\* (specification SpecFinder)
\* ------------------------------------------------------------------------

\* contract addresses of the candidates the collaborator may answer (its
\* filters keep only coins with a non-empty address)
CandidateAddresses == {"0xaaa", "0xbbb"}
\* what coinGeckoClient.findBestLosingToken / findBestSolanaMemeToken
\* resolves to when asked: a candidate or null (a rejected promise ends in
\* the catch branch, which also returns null without touching the cache)
CollaboratorAnswers == CandidateAddresses \cup {NoToken}

\* granularity of the clock: half of the shorter cache period
FinderTick == 150000
\* Date.now() of the first call, in ticks (later than time 0 by more than
\* both cache periods), and of the last
FirstTick == 4
LastTick == 8
\* number of calls in a behaviour
MaxFinderCalls == 3

EmptyCache == [lastSelectedToken |-> NoToken, lastSelectionTime |-> 0]

FinderInit ==
  finder = [clock |-> FirstTick, loss |-> EmptyCache, meme |-> EmptyCache, log |-> <<>>]

\* Variant of CacheValid: the cache is never used
CacheNeverValid(cache, nowMs, selectionCacheTimeout) == FALSE

\* this.lastSelectedToken && (now - this.lastSelectionTime) < this.selectionCacheTimeout
CacheValid(cache, nowMs, selectionCacheTimeout) ==
  /\ cache.lastSelectedToken # NoToken
  /\ nowMs - cache.lastSelectionTime < selectionCacheTimeout

\* the body shared by LossStrategy.findBestLosingToken and
\* GuaranteedMemeStrategy.findBestSolanaMemeToken: the cached selection
\* while it is valid, else the collaborator's answer, stored with the time
\* read at the start of the call if it is not null.
\* Returns [returned, asked, cache]
FindWithCache(cache, nowMs, selectionCacheTimeout, bestToken) ==
  IF CacheValid(cache, nowMs, selectionCacheTimeout)
  THEN [returned |-> cache.lastSelectedToken, asked |-> FALSE, cache |-> cache]
  ELSE [returned |-> bestToken, asked |-> TRUE,
        cache |-> IF bestToken # NoToken
                  THEN [lastSelectedToken |-> bestToken, lastSelectionTime |-> nowMs]
                  ELSE cache]

\* resetState: lastSelectedToken = null, lastSelectionTime = 0
resetState(cache) == EmptyCache

FinderEvent(who, op, r) ==
  [who |-> who, op |-> op, at |-> finder.clock * FinderTick, asked |-> r.asked,
   returned |-> r.returned]

\* one call of LossStrategy.findBestLosingToken
FindBestLosingToken ==
  /\ Len(finder.log) < MaxFinderCalls
  /\ \E bestToken \in CollaboratorAnswers :
       \E r \in {FindWithCache(finder.loss, finder.clock * FinderTick,
                                 lossSelectionCacheTimeout, bestToken)} :
         finder' = [finder EXCEPT !.loss = r.cache,
                                  !.log = Append(@, FinderEvent("loss", "find", r))]
  /\ UNCHANGED besidesFinder

\* one call of GuaranteedMemeStrategy.findBestSolanaMemeToken
FindBestSolanaMemeToken ==
  /\ Len(finder.log) < MaxFinderCalls
  /\ \E bestToken \in CollaboratorAnswers :
       \E r \in {FindWithCache(finder.meme, finder.clock * FinderTick,
                                 memeSelectionCacheTimeout, bestToken)} :
         finder' = [finder EXCEPT !.meme = r.cache,
                                  !.log = Append(@, FinderEvent("meme", "find", r))]
  /\ UNCHANGED besidesFinder

\* LossStrategy.resetState
ResetLossState ==
  /\ Len(finder.log) < MaxFinderCalls
  /\ finder' = [finder EXCEPT !.loss = resetState(@),
                               !.log = Append(@, FinderEvent("loss", "reset",
                                                 [asked |-> FALSE, returned |-> NoToken]))]
  /\ UNCHANGED besidesFinder

\* GuaranteedMemeStrategy.resetState
ResetMemeState ==
  /\ Len(finder.log) < MaxFinderCalls
  /\ finder' = [finder EXCEPT !.meme = resetState(@),
                               !.log = Append(@, FinderEvent("meme", "reset",
                                                 [asked |-> FALSE, returned |-> NoToken]))]
  /\ UNCHANGED besidesFinder

\* time passes
FinderTicks ==
  /\ finder.clock < LastTick
  /\ finder' = [finder EXCEPT !.clock = @ + 1]
  /\ UNCHANGED besidesFinder

FinderNext ==
  \/ FindBestLosingToken
  \/ FindBestSolanaMemeToken
  \/ ResetLossState
  \/ ResetMemeState
  \/ FinderTicks

ComponentInit == StoreInit /\ ServerInit /\ ApiInit /\ FinderInit

\* the handler of POST /command, from the request to the response;
\* processExternalCommand returns or throws (the handler keeps no state:
\* one request per behaviour shows all there is)
PostCommand ==
  /\ server.status = 0
  /\ \E decision \in RequestBodies :
       \E validation \in {validateTradingDecision(decision)} :
         IF ~validation.isValid
         THEN server' = [body |-> decision, status |-> 400, error |-> validation.error,
                         calls |-> <<>>]
         ELSE \E threw \in BOOLEAN :
                server' = [body |-> decision,
                           status |-> IF threw THEN 500 ELSE 200,
                           error |-> IF threw THEN "Failed to process trading decision" ELSE "",
                           calls |-> <<decision>>]
  /\ UNCHANGED besidesServer

ServerNext ==
  \/ PostCommand


\* baseTradeInterval in ms: the duration of one tick
TickMs == 300000
\* number of ticks a behaviour of the model runs
MaxNow == 2

\* ------------------------------------------------------------------------
\* Snapshots handed to the core by DataIngestor.getMarketData
\* ------------------------------------------------------------------------
Holding(token, amount, price) == [token |-> token, amount |-> amount, price |-> price]

PriceMap(wethPrice, wbtcPrice) ==
  [t \in AllTokens |-> CASE t = USDC -> 1 [] t = WETH -> wethPrice [] t = WBTC -> wbtcPrice
                         [] t = DAI -> 1 [] t = USDT -> 1 [] OTHER -> 0]

\* portfolio.tokens for a choice of amounts; holdings carry the current price
PortfolioTokens(kind, prices) ==
  CASE kind = "balanced" -> <<Holding(USDC, 400, 1), Holding(WETH, 3, prices[WETH]),
                              Holding(WBTC, 1, prices[WBTC])>>
    [] kind = "rich" -> <<Holding(USDC, 4000, 1), Holding(WETH, 30, prices[WETH]),
                          Holding(WBTC, 15, prices[WBTC])>>
    [] kind = "cash" -> <<Holding(USDC, 1000, 1)>>
    [] kind = "weth" -> <<Holding(WETH, 3, prices[WETH])>>
    [] kind = "small" -> <<Holding(USDC, 15, 1)>>
    [] kind = "dai" -> <<Holding(DAI, 60, 1)>>
    [] kind = "wbtc" -> <<Holding(WBTC, 1, prices[WBTC])>>
    [] kind = "cashdai" -> <<Holding(USDC, 100, 1), Holding(DAI, 60, 1)>>
    [] kind = "tilted" -> <<Holding(USDC, 800, 1), Holding(WETH, 14, prices[WETH]),
                            Holding(WBTC, 9, prices[WBTC])>>
    [] kind = "concentrated" -> <<Holding(USDC, 1000, 1), Holding(WETH, 90, prices[WETH]),
                                  Holding(DAI, 101, 1)>>
    [] kind = "empty" -> <<>>

PortfolioKinds == {"balanced", "cash", "weth", "small"}
WethPrices == {100, 110}
WbtcPrices == {200}

Snapshot(kind, wethPrice, wbtcPrice, ts) ==
  LET prices == PriceMap(wethPrice, wbtcPrice)
  IN [tokens |-> PortfolioTokens(kind, prices), prices |-> prices, timestamp |-> ts]

Snapshots(ts) == {Snapshot(k, pe, pb, ts) : k \in PortfolioKinds, pe \in WethPrices, pb \in WbtcPrices}

\* answers of the advisory collaborator (OpenAIClient.getTradingDecision)
LlmAnswers == {NULL, Decision("buy", USDC, WETH, QInt(50), "LLM", Q(1, 2), FALSE)}
CgAnswers == {"none", "ok", "malformed"}
\* a collaborator answers only in the modes in which makeDecision consults it
Envs(p) == [llm : IF p.llmEnabled THEN LlmAnswers ELSE {NULL},
            cgLoss : IF p.lossStrategyEnabled THEN CgAnswers ELSE {"none"},
            cgMeme : IF p.guaranteedMemeTradeEnabled THEN CgAnswers ELSE {"none"}]

\* rotation fallback not in use
NoArbCall == [called |-> FALSE, decision |-> NULL, notional |-> 0]
ArbIdle ==
  /\ arbMd = Snapshot("empty", 0, 0, 0)
  /\ arbLast = NoArbCall
  /\ arbPrev = "none"

NoCall == [md |-> Snapshot("empty", 0, 0, 0), decision |-> NULL, calls |-> <<>>]

\* the strategy core after construction
OrchInit ==
  /\ params = DefaultParams
  /\ history = [t \in AllTokens |-> <<>>]
  /\ arbState = [lastTradeDirection |-> "sell", tradeCounter |-> 0]
  /\ lossState = [lastSelectedToken |-> NoToken, lastSelectionTime |-> 0]
  /\ memeState = [lastSelectedToken |-> NoToken, lastSelectionTime |-> 0, wellFormed |-> TRUE]
  /\ now = 0
  /\ lastCall = NoCall

\* createInitialState: the agent starts active with nothing traded
InitialAgentState == [isActive |-> TRUE, totalTrades |-> 0, dailyPnL |-> QInt(0)]

NoValidation ==
  [called |-> FALSE, decision |-> NULL, md |-> Snapshot("empty", 0, 0, 0),
   agentState |-> InitialAgentState, before |-> <<>>,
   result |-> [isValid |-> FALSE, reason |-> "", tradeHistory |-> <<>>]]

\* the risk gate after construction
RiskInit ==
  /\ riskParams = DefaultRiskParams
  /\ tradeHistory = <<>>
  /\ riskLast = NoValidation

\* no makeDecision call suspended
NoPending == [pc |-> "idle", md |-> Snapshot("empty", 0, 0, 0), params |-> DefaultParams,
              reads |-> <<>>]

\* no operation of the agent under way
Idle ==
  [pc |-> "idle", md |-> Snapshot("empty", 0, 0, 0), decision |-> NULL, count |-> 0,
   log |-> <<>>, result |-> NULL]

AgentInit ==
  /\ agentState = InitialAgentState
  /\ cycle = Idle
  /\ cmd = Idle
  /\ paused = FALSE
  /\ pending = NoPending
  /\ isRunning = FALSE
  /\ loops = <<>>
  /\ ComponentInit

Init ==
  /\ OrchInit
  /\ ArbIdle
  /\ RiskInit
  /\ AgentInit

\* One call of StrategyOrchestrator.makeDecision on a fresh snapshot, one
\* trade interval after the previous one
MakeDecision ==
  /\ now < MaxNow
  /\ \E md \in Snapshots(now + 1), env \in Envs(params) :
       \E r \in {makeDecision(md, params,
                               [hist |-> history, arb |-> arbState, ls |-> lossState,
                                ms |-> memeState],
                               (now + 1) * TickMs, env)} :
          /\ now' = now + 1
          /\ history' = r.hist
          /\ arbState' = r.arb
          /\ lossState' = r.ls
          /\ memeState' = r.ms
          /\ lastCall' = [md |-> md, decision |-> r.decision, calls |-> r.calls]
          /\ UNCHANGED <<params, arbVars, riskVars, agentVars>>
  /\ UNCHANGED componentVars

\* Control surface: toggleLLMStrategy, toggleLossStrategy,
\* toggleGuaranteedMemeMode, updateStrategyParams({rebalanceThreshold})
ToggleLLMStrategy ==
  /\ params' = [params EXCEPT !.llmEnabled = ~@]
  /\ lastCall' = NoCall
  /\ riskLast' = NoValidation
  /\ UNCHANGED <<history, arbState, lossState, memeState, now, arbVars>>
  /\ UNCHANGED <<riskParams, tradeHistory, agentVars>>
  /\ UNCHANGED componentVars

ToggleLossStrategy ==
  /\ params' = [params EXCEPT !.lossStrategyEnabled = ~@]
  /\ lastCall' = NoCall
  /\ riskLast' = NoValidation
  /\ UNCHANGED <<history, arbState, lossState, memeState, now, arbVars>>
  /\ UNCHANGED <<riskParams, tradeHistory, agentVars>>
  /\ UNCHANGED componentVars

ToggleGuaranteedMemeMode ==
  /\ params' = [params EXCEPT !.guaranteedMemeTradeEnabled = ~@]
  /\ lastCall' = NoCall
  /\ riskLast' = NoValidation
  /\ UNCHANGED <<history, arbState, lossState, memeState, now, arbVars>>
  /\ UNCHANGED <<riskParams, tradeHistory, agentVars>>
  /\ UNCHANGED componentVars

RebalanceThresholds == {Q(1, 100), QInt(1)}

UpdateRebalanceThreshold ==
  /\ \E thr \in RebalanceThresholds \ {params.rebalanceThreshold} :
       params' = [params EXCEPT !.rebalanceThreshold = thr]
  /\ lastCall' = NoCall
  /\ riskLast' = NoValidation
  /\ UNCHANGED <<history, arbState, lossState, memeState, now, arbVars>>
  /\ UNCHANGED <<riskParams, tradeHistory, agentVars>>
  /\ UNCHANGED componentVars

Next ==
  \/ MakeDecision
  \/ ToggleLLMStrategy
  \/ ToggleLossStrategy
  \/ ToggleGuaranteedMemeMode
  \/ UpdateRebalanceThreshold

Spec == Init /\ [][Next]_vars

\* the StrategyParamsManager on its own
SpecStore == Init /\ [][StoreNext]_vars

\* the command server's POST /command on its own
SpecServer == Init /\ [][ServerNext]_vars

SpecApi == Init /\ [][ApiNext]_vars

SpecFinder == Init /\ [][FinderNext]_vars

\* ------------------------------------------------------------------------
\* The rotation fallback called cycle after cycle (specification SpecArb)
\* ------------------------------------------------------------------------
\* number of checkArbitrage calls in a behaviour: the notional repeats after 5
MaxArbCalls == 6

ArbKinds == {"balanced", "cash", "weth", "wbtc", "dai", "cashdai", "small", "empty"}
ArbWethPrices == {0, 100}
ArbWbtcPrices == {0, 200}

\* snapshots of DataIngestor: a holding always carries a positive price
ArbSnapshots ==
  {md \in {Snapshot(k, pe, pb, 0) : k \in ArbKinds, pe \in ArbWethPrices, pb \in ArbWbtcPrices} :
     \A i \in 1..Len(md.tokens) : md.tokens[i].price > 0}

ArbInit ==
  /\ OrchInit
  /\ arbMd \in ArbSnapshots
  /\ arbLast = NoArbCall
  /\ arbPrev = "none"
  /\ RiskInit
  /\ AgentInit

\* One cycle's call of ArbitrageStrategy.checkArbitrage on the snapshot
CheckArbitrage ==
  /\ arbState.tradeCounter < MaxArbCalls
  /\ \E r \in {checkArbitrage(arbMd, arbState)} :
       /\ arbState' = r.state
       /\ arbLast' = [called |-> TRUE, decision |-> r.decision,
                      notional |-> TradeAmount(r.state.tradeCounter)]
       /\ arbPrev' = IF arbLast.decision # NULL THEN arbLast.decision.action ELSE arbPrev
  /\ UNCHANGED <<orchVars, arbMd, riskVars, agentVars>>
  /\ UNCHANGED componentVars

\* Balances or prices change between two cycles
ChangeSnapshot ==
  /\ arbState.tradeCounter < MaxArbCalls
  /\ arbMd' \in ArbSnapshots \ {arbMd}
  /\ arbLast' = NoArbCall
  /\ arbPrev' = "none"
  /\ UNCHANGED <<orchVars, arbState, riskVars, agentVars>>
  /\ UNCHANGED componentVars

ArbNext ==
  \/ CheckArbitrage
  \/ ChangeSnapshot

SpecArb == ArbInit /\ [][ArbNext]_vars

\* ------------------------------------------------------------------------
\* The risk gate on its own (specification SpecRisk)
\* ------------------------------------------------------------------------
\* hours a behaviour runs
MaxHours == 2
\* cap on the recorded trades
MaxRecorded == 2
\* the frequency limit an operator sets through updateRiskParams
LowTradesPerHour == 1

TicksPerHour == HourMs \div TickMs

RiskKinds == {"rich", "balanced", "concentrated"}
RiskSnapshots(ts) == {Snapshot(k, 100, 200, ts) : k \in RiskKinds}

\* instructions from the cascade, the fallbacks and external commands
RiskDecisions ==
  {Decision("buy", USDC, WETH, QInt(5), "Command", Q(1, 2), FALSE),
   Decision("buy", USDC, WETH, QInt(50), "Command", Q(1, 2), FALSE),
   Decision("buy", USDC, WETH, QInt(2500), "Command", Q(1, 2), FALSE),
   Decision("sell", WETH, USDC, Q(3000, 101), "Command", Q(1, 2), FALSE),
   Decision("sell", WETH, USDC, Q(151, 5), "Command", Q(1, 2), FALSE),
   Decision("sell", WETH, USDC, QInt(31), "Command", Q(1, 2), FALSE),
   Decision("sell", DAI, USDC, QInt(5), "Command", Q(1, 2), FALSE),
   Decision("sell", DAI, USDC, QInt(100), "Command", Q(1, 2), FALSE),
   Decision("sell", MEME, USDC, QInt(50), "Command", Q(1, 2), FALSE),
   Decision("buy", USDC, MEME, QInt(50), "GUARANTEED MEME PREP", Q(1, 2), TRUE),
   Decision("sell", DAI, USDC, QInt(5), "GUARANTEED MEME PREP", Q(1, 2), TRUE)}

RiskAgentStates ==
  {[InitialAgentState EXCEPT !.dailyPnL = QInt(pnl)] : pnl \in {0, -20}}
    \cup {[InitialAgentState EXCEPT !.isActive = FALSE, !.dailyPnL = QInt(-20)]}

\* One call of RiskManager.validateTrade
ValidateTrade ==
  /\ \E decision \in RiskDecisions, md \in RiskSnapshots(now), a \in RiskAgentStates :
       \E r \in {validateTrade(decision, md, a, params, riskParams, tradeHistory,
                                 now * TickMs)} :
          /\ tradeHistory' = r.tradeHistory
          /\ riskLast' = [called |-> TRUE, decision |-> decision, md |-> md,
                          agentState |-> a, before |-> tradeHistory,
                          result |-> r]
  /\ UNCHANGED <<orchVars, arbState, arbVars, riskParams, agentVars>>
  /\ UNCHANGED componentVars

\* RiskManager.recordTrade
RecordTrade ==
  /\ Len(tradeHistory) < MaxRecorded
  /\ tradeHistory' = recordTrade(tradeHistory, now * TickMs)
  /\ riskLast' = NoValidation
  /\ UNCHANGED <<orchVars, arbState, arbVars, riskParams, agentVars>>
  /\ UNCHANGED componentVars

\* an hour goes by
HourPasses ==
  /\ now + TicksPerHour <= MaxHours * TicksPerHour
  /\ now' = now + TicksPerHour
  /\ riskLast' = NoValidation
  /\ lastCall' = NoCall
  /\ UNCHANGED <<params, history, lossState, memeState, arbState, arbVars>>
  /\ UNCHANGED <<riskParams, tradeHistory, agentVars>>
  /\ UNCHANGED componentVars

\* updateRiskParams({maxTradesPerHour})
UpdateRiskParams ==
  /\ \E m \in {LowTradesPerHour, DefaultRiskParams.maxTradesPerHour} \ {riskParams.maxTradesPerHour} :
       riskParams' = [riskParams EXCEPT !.maxTradesPerHour = m]
  /\ riskLast' = NoValidation
  /\ UNCHANGED <<orchVars, arbState, arbVars, tradeHistory, agentVars>>
  /\ UNCHANGED componentVars

\* setLLMObjective
SetLLMObjective ==
  /\ \E objective \in {"maximize_profit", "maximize_loss"} \ {params.llmObjective} :
       params' = [params EXCEPT !.llmObjective = objective]
  /\ lastCall' = NoCall
  /\ riskLast' = NoValidation
  /\ UNCHANGED <<history, arbState, lossState, memeState, now, arbVars>>
  /\ UNCHANGED <<riskParams, tradeHistory, agentVars>>
  /\ UNCHANGED componentVars

RiskNext ==
  \/ ValidateTrade
  \/ RecordTrade
  \/ HourPasses
  \/ UpdateRiskParams
  \/ ToggleLLMStrategy
  \/ ToggleLossStrategy
  \/ SetLLMObjective

SpecRisk == Init /\ [][RiskNext]_vars

\* ------------------------------------------------------------------------
\* TradingAgent (breakoutStrategy.ts): the scheduled cycle and the external
\* command, each split where it awaits a collaborator (specification
\* SpecAgent)
\* ------------------------------------------------------------------------
\* external commands submitted in a behaviour
MaxCommands == 1

AgentKinds == {"rich", "balanced"}
AgentSnapshots(ts) == {Snapshot(k, 100, 200, ts) : k \in AgentKinds}

\* instructions of POST /command
CommandDecisions ==
  {Decision("buy", USDC, WETH, QInt(50), "Command", Q(1, 2), FALSE),
   Decision("buy", USDC, WETH, QInt(5), "Command", Q(1, 2), FALSE)}

\* what apiClient.executeTrade answers: failure, or a transaction with
\* fromAmount * price = tradeValue
TradeResults ==
  {[success |-> FALSE, tradeValue |-> QInt(0)],
   [success |-> TRUE, tradeValue |-> QInt(1000)]}

Event(kind, decision, isValid) ==
  [kind |-> kind, decision |-> decision, isValid |-> isValid]

\* Variant of Rejected: the gate's answer is ignored
RejectedNever(validation) == FALSE

\* if (!validation.isValid)
Rejected(validation) == ~validation.isValid

\* validateTrade, then executeTrade up to its call of the execution
\* collaborator unless rejected.  Returns [rejected, tradeHistory, log]
Gate(decision, md) ==
  With(validateTrade(decision, md, agentState, params, riskParams, tradeHistory,
                     now * TickMs), LAMBDA validation :
    LET validated == <<Event("validate", decision, validation.isValid)>>
    IN [rejected |-> Rejected(validation),
        tradeHistory |-> validation.tradeHistory,
        log |-> IF Rejected(validation) THEN validated
                ELSE Append(validated, Event("execute", decision, TRUE))])

\* executeTrade after the collaborator answered: the PnL update
executeTrade(a, result) ==
  IF result.success
  THEN [a EXCEPT !.dailyPnL = QAdd(@, QMul(result.tradeValue, Q(1, 1000)))]
  ELSE a

\* the statements after the call of the execution collaborator returned:
\* the rest of executeTrade, totalTrades += 1, recordTrade
Settle(result) ==
  /\ agentState' = [executeTrade(agentState, result) EXCEPT !.totalTrades = @ + 1]
  /\ tradeHistory' = recordTrade(tradeHistory, now * TickMs)

\* the operation's record once it has settled; result is what the execution
\* collaborator answered
Settled(op, result) ==
  [op EXCEPT !.pc = "idle", !.result = result,
             !.log = @ \o <<Event("count", op.decision, TRUE),
                             Event("record", op.decision, TRUE)>>]

\* executeTradingCycle up to the await of makeDecision: one trade interval
\* after the previous cycle; getMarketData may throw
CycleStart ==
  /\ cycle.pc = "idle"
  /\ now < MaxNow
  /\ now' = now + 1
  /\ \/ /\ UNCHANGED <<params, history, lossState, memeState, lastCall, arbState>>
        /\ UNCHANGED agentState
        /\ cycle' = Idle
     \/ \E md \in AgentSnapshots(now + 1) :
          IF shouldStopTrading(riskParams, agentState, md)
          THEN /\ agentState' = [agentState EXCEPT !.isActive = FALSE]
               /\ UNCHANGED <<params, history, lossState, memeState, lastCall, arbState>>
               /\ cycle' = [Idle EXCEPT !.log = <<Event("stop", NULL, FALSE)>>]
          ELSE \E env \in Envs(params) :
                 \E r \in {makeDecision(md, params,
                                         [hist |-> history, arb |-> arbState,
                                          ls |-> lossState, ms |-> memeState],
                                         (now + 1) * TickMs, env)} :
                    /\ history' = r.hist
                    /\ arbState' = r.arb
                    /\ lossState' = r.ls
                    /\ memeState' = r.ms
                    /\ cycle' = [Idle EXCEPT !.pc = "deciding", !.md = md,
                                             !.decision = r.decision]
                    /\ UNCHANGED <<params, lastCall, agentState>>
  /\ UNCHANGED <<arbVars, riskVars, cmd, paused, pending, isRunning, loops>>
  /\ UNCHANGED componentVars

\* executeTradingCycle from the answer of makeDecision to the await of the
\* execution collaborator
CycleValidate ==
  /\ cycle.pc = "deciding"
  /\ IF cycle.decision = NULL
     THEN /\ cycle' = [cycle EXCEPT !.pc = "idle"]
          /\ UNCHANGED tradeHistory
     ELSE \E g \in {Gate(cycle.decision, cycle.md)} :
            /\ tradeHistory' = g.tradeHistory
            /\ cycle' = [cycle EXCEPT !.pc = IF g.rejected THEN "idle" ELSE "executing",
                                      !.md = Idle.md, !.log = g.log]
  /\ UNCHANGED <<orchVars, arbState, arbVars, riskParams, riskLast, agentState, cmd, paused, pending, isRunning, loops>>
  /\ UNCHANGED componentVars

\* executeTradingCycle after the execution collaborator answered
CycleFinish ==
  /\ cycle.pc = "executing"
  /\ \E result \in TradeResults :
       /\ Settle(result)
       /\ cycle' = Settled(cycle, result)
  /\ UNCHANGED <<orchVars, arbState, arbVars, riskParams, riskLast, cmd, paused, pending, isRunning, loops>>
  /\ UNCHANGED componentVars

\* processExternalCommand up to the await of the execution collaborator;
\* getMarketData may throw, a rejection is thrown to the caller
CommandSubmit ==
  /\ cmd.pc = "idle"
  /\ cmd.count < MaxCommands
  /\ \E decision \in CommandDecisions :
       \/ /\ cmd' = [Idle EXCEPT !.count = cmd.count + 1, !.decision = decision]
          /\ UNCHANGED tradeHistory
       \/ \E md \in AgentSnapshots(now) :
            \E g \in {Gate(decision, md)} :
              /\ tradeHistory' = g.tradeHistory
              /\ cmd' = [pc |-> IF g.rejected THEN "idle" ELSE "executing",
                         md |-> Idle.md, decision |-> decision, count |-> cmd.count + 1,
                         log |-> g.log, result |-> NULL]
  /\ UNCHANGED <<orchVars, arbState, arbVars, riskParams, riskLast, agentState, cycle, paused, pending, isRunning, loops>>
  /\ UNCHANGED componentVars

\* processExternalCommand after the execution collaborator answered
CommandFinish ==
  /\ cmd.pc = "executing"
  /\ \E result \in TradeResults :
       /\ Settle(result)
       /\ cmd' = Settled(cmd, result)
  /\ UNCHANGED <<orchVars, arbState, arbVars, riskParams, riskLast, cycle, paused, pending, isRunning, loops>>
  /\ UNCHANGED componentVars

\* pauseTrading, resumeTrading
PauseTrading ==
  /\ agentState' = [agentState EXCEPT !.isActive = FALSE]
  /\ paused' = TRUE
  /\ UNCHANGED <<pending, isRunning, loops>>
  /\ UNCHANGED <<orchVars, arbState, arbVars, riskVars, cycle, cmd>>
  /\ UNCHANGED componentVars

ResumeTrading ==
  /\ agentState' = [agentState EXCEPT !.isActive = TRUE]
  /\ paused' = FALSE
  /\ UNCHANGED <<pending, isRunning, loops>>
  /\ UNCHANGED <<orchVars, arbState, arbVars, riskVars, cycle, cmd>>
  /\ UNCHANGED componentVars

AgentNext ==
  \/ CycleStart
  \/ CycleValidate
  \/ CycleFinish
  \/ CommandSubmit
  \/ CommandFinish
  \/ PauseTrading
  \/ ResumeTrading
  \/ ToggleLossStrategy

SpecAgent == Init /\ [][AgentNext]_vars

\* ------------------------------------------------------------------------
\* The scheduled cycle and an external command under a low trade-frequency
\* limit (specification SpecRace)
\* ------------------------------------------------------------------------
\* updateRiskParams({maxTradesPerHour}) before the first trade is recorded
\* (a limit lowered under a filled window is below the window's count at
\* once, whatever the agent does)
SetFrequencyLimit ==
  /\ tradeHistory = <<>>
  /\ cycle.pc # "executing" /\ cmd.pc # "executing"
  /\ \E m \in {LowTradesPerHour, DefaultRiskParams.maxTradesPerHour} \ {riskParams.maxTradesPerHour} :
       riskParams' = [riskParams EXCEPT !.maxTradesPerHour = m]
  /\ riskLast' = NoValidation
  /\ UNCHANGED <<orchVars, arbState, arbVars, tradeHistory, agentVars>>
  /\ UNCHANGED componentVars

RaceNext ==
  \/ CycleStart
  \/ CycleValidate
  \/ CycleFinish
  \/ CommandSubmit
  \/ CommandFinish
  \/ SetFrequencyLimit

SpecRace == Init /\ [][RaceNext]_vars

\* ------------------------------------------------------------------------
\* The signal evaluators on their own (specification SpecEval): parameters
\* and price history are drawn at the start, each step hands one evaluator a
\* snapshot and keeps its answer in lastCall (the evaluators keep no state
\* of their own, so one evaluation per draw shows all there is)
\* ------------------------------------------------------------------------
MaxHistory == 3
MaxLookback == 3

\* target maps in Object.entries order: the default, the default reversed,
\* and one led by WETH
TargetMaps ==
  {DefaultParams.targetAllocations,
   << [token |-> WBTC, target |-> Q(25, 100)], [token |-> WETH, target |-> Q(35, 100)],
      [token |-> USDC, target |-> Q(40, 100)] >>,
   << [token |-> WETH, target |-> Q(50, 100)], [token |-> WBTC, target |-> Q(30, 100)],
      [token |-> USDC, target |-> Q(20, 100)] >>}

EvalThresholds == {Q(1, 100), Q(5, 100)}
EvalVolatilityThresholds == {Q(2, 100), Q(10, 100)}

\* parameter sets as updateStrategyParams can make them: the default with the
\* rebalancing, the mean-reversion, the trend or the breakout group changed
EvalParams ==
  {[DefaultParams EXCEPT !.targetAllocations = tm, !.rebalanceThreshold = thr] :
     tm \in TargetMaps, thr \in EvalThresholds}
  \cup {[DefaultParams EXCEPT !.meanReversionLookbackPeriod = l] : l \in 1..MaxLookback}
  \cup {[DefaultParams EXCEPT !.trendFollowingShortSmaPeriod = sl[1],
                              !.trendFollowingLongSmaPeriod = sl[2]] :
          sl \in {x \in (1..MaxLookback) \X (1..MaxLookback) : x[1] < x[2]}}
  \cup {[DefaultParams EXCEPT !.breakoutLookbackPeriod = l,
                              !.breakoutVolatilityThreshold = v] :
          l \in 1..MaxLookback, v \in EvalVolatilityThresholds}

\* the rows of one token, oldest first, one tick apart
Series(prices) ==
  [i \in 1..Len(prices) |-> [ts |-> (i - Len(prices) - 1) * TickMs, price |-> prices[i]]]

EvalWethPrices == {100, 110}
\* a steady rise and a steady fall
TrendingSeries == {<<90, 100, 110>>, <<110, 100, 90>>}
EvalWethSeries == UNION {[1..n -> EvalWethPrices] : n \in 0..MaxHistory} \cup TrendingSeries
EvalWbtcSeries == {<<>>, <<200, 200, 200>>}

EvalHistories ==
  {[t \in AllTokens |-> CASE t = WETH -> Series(we) [] t = WBTC -> Series(wb)
                           [] OTHER -> <<>>] :
     we \in EvalWethSeries, wb \in EvalWbtcSeries}

EvalKinds == {"balanced", "tilted", "weth"}
EvalSnapshots ==
  {Snapshot(k, pe, 200, 0) : k \in EvalKinds, pe \in {90, 100, 110}}

EvalInit ==
  /\ params \in EvalParams
  /\ history \in EvalHistories
  /\ arbState = [lastTradeDirection |-> "sell", tradeCounter |-> 0]
  /\ lossState = [lastSelectedToken |-> NoToken, lastSelectionTime |-> 0]
  /\ memeState = [lastSelectedToken |-> NoToken, lastSelectionTime |-> 0, wellFormed |-> TRUE]
  /\ now = 0
  /\ lastCall = NoCall
  /\ ArbIdle /\ RiskInit /\ AgentInit

\* the evaluator named source answered decision on md (each behaviour
\* evaluates once: the steps below are enabled while lastCall = NoCall)
Evaluated(source, md, decision) ==
  /\ lastCall' = [md |-> md, decision |-> decision, calls |-> <<Call(source, decision)>>]
  /\ UNCHANGED <<params, history, lossState, memeState, now>>
  /\ UNCHANGED <<arbState, arbVars, riskVars, agentVars>>

EvalRebalancing ==
  /\ lastCall = NoCall
  /\ \E md \in EvalSnapshots :
       \E r \in {checkRebalancing(md, params)} : Evaluated("rebalance", md, r)
  /\ UNCHANGED componentVars

EvalTrendFollowing ==
  /\ lastCall = NoCall
  /\ \E md \in EvalSnapshots :
       \E r \in {checkTrendFollowing(md, params, history)} : Evaluated("trend", md, r)
  /\ UNCHANGED componentVars

EvalBreakout ==
  /\ lastCall = NoCall
  /\ \E md \in EvalSnapshots :
       \E r \in {checkBreakout(md, params, history)} : Evaluated("breakout", md, r)
  /\ UNCHANGED componentVars

EvalMeanReversion ==
  /\ lastCall = NoCall
  /\ \E md \in EvalSnapshots :
       \E r \in {checkMeanReversion(md, params, history)} : Evaluated("meanReversion", md, r)
  /\ UNCHANGED componentVars

\* fractional prices as doubles: 2500.5 (sums of it are exact), 3000.05 and
\* 3120.45 (they are not)
FractionalPrices ==
  {[hi |-> 40968192, lo |-> 0, e |-> -41],
   [hi |-> 49152819, lo |-> 26843546, e |-> -41],
   [hi |-> 51125452, lo |-> 107374182, e |-> -41]}

\* markets whose WETH price never moved
FlatMarkets ==
  {[token |-> WETH, price |-> pr, rows |-> n, amount |-> a] :
     pr \in FractionalPrices, n \in 0..MaxHistory, a \in {0, 3}}

\* checkTrendFollowing on a market with fractional prices
EvalTrendFollowingFlat ==
  /\ lastCall = NoCall
  /\ \E fm \in FlatMarkets :
       \E r \in {TrendForTokenFloat(fm, params)} : Evaluated("trendFlat", fm, r)
  /\ UNCHANGED componentVars

EvalNext ==
  \/ EvalRebalancing
  \/ EvalTrendFollowing
  \/ EvalTrendFollowingFlat
  \/ EvalBreakout
  \/ EvalMeanReversion

SpecEval == EvalInit /\ [][EvalNext]_vars

\* ------------------------------------------------------------------------
\* makeDecision followed across its awaits of the advisory and the
\* token-discovery collaborator, with the control surface served while the
\* call is suspended (specification SpecAwait).  The await inside the
\* discovery fallback is not split: the call runs from there to its end.
\* ------------------------------------------------------------------------
AwaitKinds == {"balanced", "small"}
AwaitSnapshots(ts) == {Snapshot(k, 100, 200, ts) : k \in AwaitKinds}

\* checkLossStrategy from where the await of findBestLosingToken returns: p
\* is the params object read at line 21, pNow what getParams() returns to
\* createLossDecision.  Returns [decision, state, rereads]
checkLossStrategyResumed(md, p, pNow, ls, nowMs, cg) ==
  LET best == findBestLosingToken(ls, nowMs, cg)
      fallback == best.token = NoToken \/ ~best.wellFormed
  IN [decision |-> IF fallback THEN createLossDecision(md, pNow, WETH)
                   ELSE LossBuy(md, p, best.token, "LOSS STRATEGY", Q(95, 100)),
      state |-> best.state,
      rereads |-> fallback]

\* the call returns decision after consulting calls
Returned(decision, calls, reads) ==
  /\ lastCall' = [md |-> pending.md, decision |-> decision, calls |-> calls]
  /\ pending' = [pending EXCEPT !.pc = "idle", !.reads = @ \o reads]

\* lines 87..138 run now: every evaluator calls getParams() for itself
CascadeNow(pre, hist, ls) ==
  \E env \in {e \in Envs(params) : e.llm = NULL /\ e.cgLoss = "none"} :
    \E c \in {Cascade(pending.md, params,
                      [hist |-> hist, arb |-> arbState, ls |-> ls, ms |-> memeState],
                      now * TickMs, env)} :
      /\ arbState' = c.arb
      /\ memeState' = c.ms
      /\ Returned(c.decision, pre \o c.calls, <<params>>)

\* makeDecision up to its first await of a collaborator; without one, the
\* whole call
MakeDecisionBegin ==
  /\ pending.pc = "idle"
  /\ now < MaxNow
  /\ now' = now + 1
  /\ \E md \in AwaitSnapshots(now + 1) :
       IF params.llmEnabled
       THEN /\ pending' = [pc |-> "llm", md |-> md, params |-> params, reads |-> <<params>>]
            /\ lastCall' = NoCall
            /\ UNCHANGED <<history, arbState, lossState, memeState>>
       ELSE IF LossOn(params)
               /\ findBestLosingToken(lossState, (now + 1) * TickMs, "none").asked
       THEN /\ pending' = [pc |-> "cg", md |-> md, params |-> params,
                           reads |-> <<params, params, params>>]
            /\ history' = saveCurrentMarketData(history, md)
            /\ lastCall' = NoCall
            /\ UNCHANGED <<arbState, lossState, memeState>>
       ELSE \E env \in Envs(params) :
              \E r \in {makeDecision(md, params,
                                      [hist |-> history, arb |-> arbState,
                                       ls |-> lossState, ms |-> memeState],
                                      (now + 1) * TickMs, env)} :
                 /\ history' = r.hist
                 /\ arbState' = r.arb
                 /\ lossState' = r.ls
                 /\ memeState' = r.ms
                 /\ lastCall' = [md |-> md, decision |-> r.decision, calls |-> r.calls]
                 /\ pending' = [pc |-> "idle", md |-> md, params |-> params,
                                reads |-> <<params>>]
  /\ UNCHANGED <<params, arbVars, riskVars, agentState, cycle, cmd, paused, isRunning, loops>>
  /\ UNCHANGED componentVars

\* the advisory collaborator answered: lines 58..138.  The flags of line 70
\* are those of the params object of line 43
MakeDecisionAfterAdvisory ==
  /\ pending.pc = "llm"
  /\ \E llmDecision \in LlmAnswers :
       IF llmDecision # NULL
       THEN /\ Returned(llmDecision, <<Call("llm", llmDecision)>>, <<>>)
            /\ UNCHANGED <<history, arbState, memeState>>
       ELSE \E hist \in {saveCurrentMarketData(history, pending.md)} :
              /\ history' = hist
              /\ CascadeNow(<<Call("llm", NULL), Call("save", NULL)>>, hist, lossState)
  /\ UNCHANGED <<params, lossState, now, arbVars, riskVars, agentState, cycle, cmd, paused, isRunning, loops>>
  /\ UNCHANGED componentVars

\* the token-discovery collaborator answered findBestLosingToken: lines
\* 33..91 of checkLossStrategy, then lines 73..138 of makeDecision
MakeDecisionAfterDiscovery ==
  /\ pending.pc = "cg"
  /\ \E cg \in CgAnswers :
       \E loss \in {checkLossStrategyResumed(pending.md, pending.params, params,
                                             lossState, now * TickMs, cg)} :
         /\ lossState' = loss.state
         /\ IF loss.decision # NULL
            THEN /\ Returned(loss.decision,
                             <<Call("save", NULL), Call("loss", loss.decision)>>,
                             IF loss.rereads THEN <<params>> ELSE <<>>)
                 /\ UNCHANGED <<arbState, memeState>>
            ELSE CascadeNow(<<Call("save", NULL), Call("loss", NULL)>>, history, loss.state)
  /\ UNCHANGED <<params, history, now, arbVars, riskVars, agentState, cycle, cmd, paused, isRunning, loops>>
  /\ UNCHANGED componentVars

AwaitNext ==
  \/ MakeDecisionBegin
  \/ MakeDecisionAfterAdvisory
  \/ MakeDecisionAfterDiscovery
  \/ ToggleLLMStrategy
  \/ ToggleLossStrategy
  \/ ToggleGuaranteedMemeMode
  \/ UpdateRebalanceThreshold

SpecAwait == Init /\ [][AwaitNext]_vars

\* ------------------------------------------------------------------------
\* TradingAgent.start / stop / runTradingLoop (specification SpecLoop, and
\* SpecLoopFair with timers that fire).  What a cycle does inside is in
\* SpecAgent; here a cycle is its begin, its end and how it ended.
\* ------------------------------------------------------------------------
\* start() calls that get past 'if (this.isRunning) return'
MaxLoops == 2

\* how executeTradingCycle ended: "completed" (no decision, rejected, or
\* traded), "stopped" (shouldStopTrading), "fetchThrew" (getMarketData threw,
\* caught at line 833), "executeFailed" (the execution collaborator threw or
\* reported failure, swallowed by executeTrade)
CycleOutcomes == {"completed", "stopped", "fetchThrew", "executeFailed"}
FailedOutcomes == {"fetchThrew", "executeFailed"}

\* outcomes open to a cycle: an inactive agent gets no further than
\* shouldStopTrading
OutcomesFor(a) == IF a.isActive THEN CycleOutcomes ELSE {"stopped", "fetchThrew"}

Loop(pc, outcome) == [pc |-> pc, outcome |-> outcome]

\* Variant of AfterCycle in which a failed cycle ends the loop
AfterCycleFailFast(outcome) == IF outcome \in FailedOutcomes THEN "done" ELSE "sleeping"

\* lines 769..780: after executeTradingCycle the loop sleeps, whether the
\* cycle returned or threw
AfterCycle(outcome) == "sleeping"

\* 'while (this.isRunning)': the next cycle begins, or the loop returns
WhileIsRunning(running) == IF running THEN "cycle" ELSE "done"

\* start() up to the await of performHealthCheck
Start ==
  /\ ~isRunning
  /\ Len(loops) < MaxLoops
  /\ isRunning' = TRUE
  /\ loops' = Append(loops, Loop("health", "none"))
  /\ UNCHANGED <<orchVars, arbState, arbVars, riskVars, agentState, cycle, cmd, paused, pending>>
  /\ UNCHANGED componentVars

\* start() after the health check: stop() if unhealthy, else runTradingLoop()
\* up to the first await of its first cycle
HealthChecked(i) ==
  /\ loops[i].pc = "health"
  /\ \E isHealthy \in BOOLEAN :
       IF isHealthy
       THEN /\ loops' = [loops EXCEPT ![i].pc = WhileIsRunning(isRunning)]
            /\ UNCHANGED <<isRunning, agentState>>
       ELSE /\ loops' = [loops EXCEPT ![i].pc = "done"]
            /\ isRunning' = FALSE
            /\ agentState' = [agentState EXCEPT !.isActive = FALSE]
  /\ UNCHANGED <<orchVars, arbState, arbVars, riskVars, cycle, cmd, paused, pending>>
  /\ UNCHANGED componentVars

\* stop()
Stop ==
  /\ isRunning' = FALSE
  /\ agentState' = [agentState EXCEPT !.isActive = FALSE]
  /\ UNCHANGED <<orchVars, arbState, arbVars, riskVars, cycle, cmd, paused, pending, loops>>
  /\ UNCHANGED componentVars

\* executeTradingCycle of loop i returns to runTradingLoop, which sleeps
CycleEnds(i) ==
  /\ loops[i].pc = "cycle"
  /\ \E outcome \in OutcomesFor(agentState) :
       /\ loops' = [loops EXCEPT ![i] = Loop(AfterCycle(outcome), outcome)]
       /\ agentState' = IF outcome = "stopped" THEN [agentState EXCEPT !.isActive = FALSE]
                        ELSE agentState
  /\ UNCHANGED <<orchVars, arbState, arbVars, riskVars, cycle, cmd, paused, pending, isRunning>>
  /\ UNCHANGED componentVars

\* the sleep of loop i is over: the while condition is looked at again
TimerExpires(i) ==
  /\ loops[i].pc = "sleeping"
  /\ loops' = [loops EXCEPT ![i].pc = WhileIsRunning(isRunning)]
  /\ UNCHANGED <<orchVars, arbState, arbVars, riskVars, agentState, cycle, cmd, paused, pending, isRunning>>
  /\ UNCHANGED componentVars

LoopNext ==
  \/ Start
  \/ Stop
  \/ \E i \in 1..Len(loops) : HealthChecked(i)
  \/ \E i \in 1..Len(loops) : CycleEnds(i)
  \/ \E i \in 1..Len(loops) : TimerExpires(i)
  \/ PauseTrading
  \/ ResumeTrading

SpecLoop == Init /\ [][LoopNext]_vars

\* setTimeout fires
SpecLoopFair == SpecLoop /\ \A i \in 1..MaxLoops : WF_vars(i <= Len(loops) /\ TimerExpires(i))

\* ------------------------------------------------------------------------
\* makeDecision with evaluators that throw (specification SpecFault): the
\* market_data table may be unreadable (every repository call throws), and
\* updateStrategyParams may have set targetAllocations to null, on which
\* Object.entries throws.  Advisory and loss-seeking mode are off.
\* ------------------------------------------------------------------------
\* entry of the call log for an evaluator whose body threw
Thrown == [action |-> "thrown"]

\* targetAllocations: null
NullAllocations == <<[token |-> "null", target |-> QInt(0)]>>

\* line 175: Object.entries(params.targetAllocations) throws a TypeError on
\* null; checkRebalancing has no try / catch
checkRebalancingThrows(p) == p.targetAllocations = NullAllocations

\* saveCurrentMarketData when the repository throws: caught at line 163
saveCurrentMarketDataFaulty(hist, md, dbFails) ==
  IF dbFails THEN hist ELSE saveCurrentMarketData(hist, md)

\* lines 87..120 with faults.  An exception of checkRebalancing leaves
\* makeDecision through its catch at line 140 (aborted); the strategy
\* classes catch their own and answer null.
\* Returns [decision, calls, aborted]
SignalEvaluatorsFaulty(md, p, hist, dbFails) ==
  LET Ret(decision, calls) == [decision |-> decision, calls |-> calls, aborted |-> FALSE]
  IN IF checkRebalancingThrows(p)
     THEN [decision |-> NULL, calls |-> <<Call("rebalance", Thrown)>>, aborted |-> TRUE]
     ELSE IF ~dbFails
     THEN With(SignalEvaluators(md, p, hist), LAMBDA s : Ret(s.decision, s.calls))
     ELSE With(checkRebalancing(md, p), LAMBDA rebalanceDecision :
            IF rebalanceDecision # NULL
            THEN Ret(rebalanceDecision, <<Call("rebalance", rebalanceDecision)>>)
            ELSE With(checkMomentumStrategy(md, p), LAMBDA momentumDecision :
                   Ret(momentumDecision,
                       <<Call("rebalance", NULL), Call("trend", Thrown),
                         Call("breakout", Thrown), Call("meanReversion", Thrown),
                         Call("momentum", momentumDecision)>>)))

\* makeDecision, lines 64..143, with faults.
\* Returns [decision, calls, hist, arb, ms]
makeDecisionFaulty(md, p, st, nowMs, env, dbFails) ==
  With(saveCurrentMarketDataFaulty(st.hist, md, dbFails), LAMBDA hist1 :
  With(SignalEvaluatorsFaulty(md, p, hist1, dbFails), LAMBDA s :
    IF s.aborted \/ s.decision # NULL
    THEN [decision |-> s.decision, calls |-> <<Call("save", NULL)>> \o s.calls,
          hist |-> hist1, arb |-> st.arb, ms |-> st.ms]
    ELSE With(GuaranteedFallbacks(md, p, st, nowMs, env), LAMBDA f :
           [decision |-> f.decision, calls |-> <<Call("save", NULL)>> \o s.calls \o f.calls,
            hist |-> hist1, arb |-> f.arb, ms |-> f.ms])))

FaultKinds == {"balanced", "cash", "small"}
FaultSnapshots(ts) == {Snapshot(k, pe, 200, ts) : k \in FaultKinds, pe \in WethPrices}

MakeDecisionWithFaults ==
  /\ now < MaxNow
  /\ \E md \in FaultSnapshots(now + 1), env \in Envs(params), dbFails \in BOOLEAN :
       \E r \in {makeDecisionFaulty(md, params,
                                    [hist |-> history, arb |-> arbState, ls |-> lossState,
                                     ms |-> memeState],
                                    (now + 1) * TickMs, env, dbFails)} :
          /\ now' = now + 1
          /\ history' = r.hist
          /\ arbState' = r.arb
          /\ memeState' = r.ms
          /\ lastCall' = [md |-> md, decision |-> r.decision, calls |-> r.calls]
          /\ UNCHANGED <<params, lossState, arbVars, riskVars, agentVars>>
  /\ UNCHANGED componentVars

\* updateStrategyParams({targetAllocations}): null, or the default map again
UpdateTargetAllocations ==
  /\ \E ta \in {NullAllocations, DefaultParams.targetAllocations} \ {params.targetAllocations} :
       params' = [params EXCEPT !.targetAllocations = ta]
  /\ lastCall' = NoCall
  /\ riskLast' = NoValidation
  /\ UNCHANGED <<history, arbState, lossState, memeState, now, arbVars>>
  /\ UNCHANGED <<riskParams, tradeHistory, agentVars>>
  /\ UNCHANGED componentVars

FaultNext ==
  \/ MakeDecisionWithFaults
  \/ UpdateTargetAllocations
  \/ UpdateRebalanceThreshold
  \/ ToggleGuaranteedMemeMode

SpecFault == Init /\ [][FaultNext]_vars

\* ------------------------------------------------------------------------
\* makeDecision under parameter values set through the control surface
\* (specification SpecParams): POST /command/update-strategy-params hands
\* its body to updateParams unvalidated
\* ------------------------------------------------------------------------
\* values of guaranteedMemeTradeAmountUSD an operator posts
MemeTradeAmounts == {QInt(0), QInt(10)}

\* updateStrategyParams({guaranteedMemeTradeAmountUSD})
UpdateGuaranteedMemeTradeAmount ==
  /\ \E amt \in MemeTradeAmounts \ {params.guaranteedMemeTradeAmountUSD} :
       params' = [params EXCEPT !.guaranteedMemeTradeAmountUSD = amt]
  /\ lastCall' = NoCall
  /\ riskLast' = NoValidation
  /\ UNCHANGED <<history, arbState, lossState, memeState, now, arbVars>>
  /\ UNCHANGED <<riskParams, tradeHistory, agentVars>>
  /\ UNCHANGED componentVars

ParamsNext ==
  \/ MakeDecision
  \/ ToggleLLMStrategy
  \/ ToggleLossStrategy
  \/ ToggleGuaranteedMemeMode
  \/ UpdateRebalanceThreshold
  \/ UpdateGuaranteedMemeTradeAmount

SpecParams == Init /\ [][ParamsNext]_vars

\* ------------------------------------------------------------------------
\* The discovery fallback called on its own (specification SpecDiscovery)
\* ------------------------------------------------------------------------
DiscoveryKinds == {"balanced", "tilted", "weth", "wbtc", "dai", "small", "cashdai", "empty"}
DiscoverySnapshots(ts) == {Snapshot(k, 100, 200, ts) : k \in DiscoveryKinds}
\* values of guaranteedMemeTradeAmountUSD: the default, and two that exceed
\* the stable balance of some snapshots
DiscoveryTradeAmounts == {QInt(10), QInt(100), QInt(1000)}

\* updateStrategyParams({guaranteedMemeTradeAmountUSD})
SetDiscoveryTradeAmount ==
  /\ \E amt \in DiscoveryTradeAmounts \ {params.guaranteedMemeTradeAmountUSD} :
       params' = [params EXCEPT !.guaranteedMemeTradeAmountUSD = amt]
  /\ lastCall' = NoCall
  /\ riskLast' = NoValidation
  /\ UNCHANGED <<history, arbState, lossState, memeState, now, arbVars>>
  /\ UNCHANGED <<riskParams, tradeHistory, agentVars>>
  /\ UNCHANGED componentVars

\* one call of makeGuaranteedMemeDecision, in the same cycle interval as the
\* previous one or one interval later; the call is recorded with the query of
\* the token-discovery collaborator, if one was made
CallDiscoveryFallback ==
  /\ \E dt \in {0, 1} :
       /\ now + dt <= MaxNow
       /\ now' = now + dt
       /\ \E md \in DiscoverySnapshots(now + dt), cg \in CgAnswers :
            \E r \in {makeGuaranteedMemeDecision(md, params, memeState,
                                                  (now + dt) * TickMs, cg)} :
              /\ memeState' = r.state
              /\ lastCall' = [md |-> md, decision |-> r.decision,
                              calls |-> IF r.asked THEN <<Call("discover", NULL)>>
                                        ELSE <<>>]
  /\ UNCHANGED <<params, history, arbState, lossState, arbVars, riskVars, agentVars>>
  /\ UNCHANGED componentVars

DiscoveryNext ==
  \/ CallDiscoveryFallback
  \/ ToggleGuaranteedMemeMode
  \/ SetDiscoveryTradeAmount

SpecDiscovery == Init /\ [][DiscoveryNext]_vars

\* ------------------------------------------------------------------------
\* Properties of StrategyOrchestrator.makeDecision (specification Spec)
\* ------------------------------------------------------------------------
\* a makeDecision call has just returned
Called == lastCall.calls # <<>>

CallNames == [i \in 1..Len(lastCall.calls) |-> lastCall.calls[i].source]

Consulted(source) == \E i \in 1..Len(lastCall.calls) : lastCall.calls[i].source = source

\* What the five signal evaluators answer on the call's snapshot, computed
\* one by one on the history as the call's write-through left it
EvaluatorResults ==
  <<checkRebalancing(lastCall.md, params),
    checkTrendFollowing(lastCall.md, params, history),
    checkBreakout(lastCall.md, params, history),
    checkMeanReversion(lastCall.md, params, history),
    checkMomentumStrategy(lastCall.md, params)>>

\* C1: with advisory and loss-seeking modes disabled, the evaluators are
\* consulted in the order Rebalancer, Trend-Following, Breakout,
\* Mean-Reversion, Momentum; the first one in that order that answers non-null
\* gives the returned instruction and no later evaluator is consulted.
C1_CascadeOrder ==
  (Called /\ ~params.llmEnabled /\ ~params.lossStrategyEnabled) =>
    /\ CallNames[1] = "save"
    /\ \A i \in 1..5 :
         (EvaluatorResults[i] # NULL /\ \A j \in 1..(i - 1) : EvaluatorResults[j] = NULL)
           => /\ lastCall.decision = EvaluatorResults[i]
              /\ CallNames = <<"save">> \o SubSeq(CascadeOrder, 1, i)
    /\ (\A j \in 1..5 : EvaluatorResults[j] = NULL)
         => /\ Len(CallNames) >= 6
            /\ SubSeq(CallNames, 1, 6) = <<"save">> \o SubSeq(CascadeOrder, 1, 5)

\* C1 witness: the momentum fallback wins after the four evaluators before it
\* were consulted and answered null.
C1_MomentumWins ==
  /\ Called /\ ~params.llmEnabled /\ ~params.lossStrategyEnabled
  /\ CallNames = <<"save">> \o SubSeq(CascadeOrder, 1, 5)
  /\ lastCall.decision # NULL
  /\ lastCall.decision.reason = "Momentum strategy"

\* C2 as stated: whenever advisory mode is on, makeDecision returns exactly
\* the advisory collaborator's answer, null included, and consults nothing else.
C2_AdvisoryVerbatim ==
  (Called /\ params.llmEnabled) =>
    /\ CallNames = <<"llm">>
    /\ lastCall.decision = lastCall.calls[1].result

\* C2 amended: with advisory mode on, a non-null answer of the collaborator is
\* returned verbatim and nothing else is consulted; a null answer makes the
\* call continue with the write-through and the cascade (the loss-seeking
\* evaluator stays skipped), whose result is returned.
C2_AdvisoryNonNullVerbatim ==
  (Called /\ params.llmEnabled) =>
    /\ CallNames[1] = "llm"
    /\ lastCall.calls[1].result # NULL
         => (CallNames = <<"llm">> /\ lastCall.decision = lastCall.calls[1].result)
    /\ lastCall.calls[1].result = NULL
         => /\ \E n \in 1..7 : CallNames = <<"llm", "save">> \o SubSeq(CascadeOrder, 1, n)
            /\ lastCall.decision = lastCall.calls[Len(lastCall.calls)].result

\* C2 witness: advisory mode is on, the collaborator answered null and the
\* call returned an instruction of the cascade.
C2_NullAnswerFallsThrough ==
  /\ Called /\ params.llmEnabled
  /\ lastCall.calls[1].result = NULL
  /\ lastCall.decision # NULL

\* C3 as stated: with loss-seeking mode on and advisory mode off, every
\* instruction returned from the loss-seeking evaluator carries the bypass
\* marker on the instruction itself.
C3_LossCarriesMarker ==
  (Called /\ params.lossStrategyEnabled /\ ~params.llmEnabled /\ CallNames = <<"save", "loss">>)
    => lastCall.decision.isGuaranteedMemeTrade = TRUE

\* C3 amended: with loss-seeking mode on and advisory mode off, the
\* loss-seeking evaluator is consulted right after the write-through; an
\* instruction it proposes (primary or WETH fallback) is returned as is, a
\* purchase paid in USDC that carries no bypass marker.
C3_LossUnmarked ==
  (Called /\ params.lossStrategyEnabled /\ ~params.llmEnabled) =>
    /\ Len(CallNames) >= 2
    /\ SubSeq(CallNames, 1, 2) = <<"save", "loss">>
    /\ lastCall.calls[2].result # NULL
         => /\ CallNames = <<"save", "loss">>
            /\ lastCall.decision = lastCall.calls[2].result
            /\ lastCall.decision.action = "buy"
            /\ lastCall.decision.fromToken = USDC
            /\ lastCall.decision.isGuaranteedMemeTrade = FALSE

\* C3 witness: the WETH fallback path of the loss-seeking evaluator produced
\* the returned instruction.
C3_LossFallbackReturned ==
  /\ Called /\ params.lossStrategyEnabled /\ ~params.llmEnabled
  /\ CallNames = <<"save", "loss">>
  /\ lastCall.decision.reason = "LOSS STRATEGY FALLBACK"

\* Tokens whose price the write-through saves: the standard tokens and the
\* holdings of the snapshot, when the price is truthy
PricedInstruments ==
  {t \in AllTokens : /\ lastCall.md.prices[t] # 0
                     /\ \/ \E i \in 1..Len(TOKENS) : TOKENS[i] = t
                        \/ FindToken(lastCall.md, t) # NULL}

\* C4: in every mode the snapshot's prices are written to the history before
\* any decision source is consulted, so after a call the history holds a
\* point with the call's timestamp for every priced instrument.
C4_WriteThroughFirst ==
  Called =>
    /\ CallNames[1] = "save"
    /\ \A t \in PricedInstruments :
         \E i \in 1..Len(history[t]) :
            /\ history[t][i].ts = lastCall.md.timestamp
            /\ history[t][i].price = lastCall.md.prices[t]

Fundable(md, notional) ==
  \E i \in 1..Len(md.tokens) :
     /\ md.tokens[i].amount > 0
     /\ md.prices[md.tokens[i].token] > 0
     /\ TokenValue(md.tokens[i]) >= notional

\* C6: in every reachable state of the rotation fallback, on every snapshot
\* in which some holding is worth at least the call's notional at a positive
\* price, checkArbitrage returns an instruction.
C6_RotationAlwaysTrades ==
  (arbLast.called /\ Fundable(arbMd, arbLast.notional)) => arbLast.decision # NULL

OnBypassPath ==
  \/ riskLast.decision.isGuaranteedMemeTrade
  \/ params.lossStrategyEnabled
  \/ (params.llmEnabled /\ params.llmObjective = "maximize_loss")

\* which of the seven checks fail on the arguments of the latest call, in the
\* order agent-active, daily-loss, minimum-amount, position-size, balance,
\* trade-frequency, drawdown
FailingChecks ==
  LET d == riskLast.decision
      md == riskLast.md
  IN << ~riskLast.agentState.isActive,
        isDailyLossExceeded(riskParams, riskLast.agentState),
        ~isTradeAmountValid(riskParams, d, md),
        ~isPositionSizeValid(riskParams, d, md),
        ~hasSufficientBalance(d, md),
        ~isTradeFrequencyValid(riskParams, riskLast.before, now * TickMs).valid,
        isMaxDrawdownExceeded(riskParams, md) >>

CheckReasons ==
  << "Agent is not active", "Daily loss limit exceeded",
     "Trade amount below minimum threshold",
     "Trade would exceed maximum position size",
     "Insufficient balance for trade", "Trade frequency limit exceeded",
     "Maximum drawdown threshold reached" >>

\* C9: on the normal path validateTrade accepts iff all seven checks pass,
\* and otherwise returns the reason of the first check, in the order
\* agent-active, daily-loss, minimum-amount, position-size, balance,
\* trade-frequency, drawdown, that fails.
C9_FirstFailingCheck ==
  (riskLast.called /\ ~OnBypassPath) =>
    LET failing == {i \in 1..7 : FailingChecks[i]}
    IN IF failing = {} THEN riskLast.result.isValid
       ELSE /\ ~riskLast.result.isValid
            /\ riskLast.result.reason =
                 CheckReasons[CHOOSE i \in failing : \A j \in failing : i <= j]

\* C9 witness: the amount and the balance checks both fail and the amount's
\* reason is returned
C9_AmountBeforeBalance ==
  /\ riskLast.called /\ ~OnBypassPath
  /\ FailingChecks[3] /\ FailingChecks[5]
  /\ ~FailingChecks[1] /\ ~FailingChecks[2]
  /\ riskLast.result.reason = "Trade amount below minimum threshold"

\* C10: on the bypass path the outcome is that of the minimal balance check
\* alone, whatever the seven checks say, and the frequency window is left as
\* it was.
C10_BypassMinimalOnly ==
  (riskLast.called /\ OnBypassPath) =>
    /\ riskLast.result.isValid = (getTokenBalance(riskLast.md, riskLast.decision.fromToken) > 0)
    /\ riskLast.result.tradeHistory = riskLast.before
    /\ tradeHistory = riskLast.before

\* C10 witness: an unmarked instruction is accepted in loss-seeking mode
\* although the agent is inactive, the daily loss limit is exceeded and the
\* drawdown threshold is reached
C10_AcceptedDespiteChecks ==
  /\ riskLast.called /\ params.lossStrategyEnabled
  /\ ~riskLast.decision.isGuaranteedMemeTrade
  /\ FailingChecks[1] /\ FailingChecks[2] /\ FailingChecks[7]
  /\ riskLast.result.isValid

\* C11: validateTrade always returns: for every instruction (marked ones, the
\* degraded-risk modes, a source instrument without price or holding
\* included), every snapshot and agent state the outcome is an acceptance or
\* a rejection that carries a non-empty reason.
C11_AcceptOrReasonedReject ==
  riskLast.called =>
    /\ riskLast.result.isValid \in BOOLEAN
    /\ riskLast.result.isValid => riskLast.result.reason = ""
    /\ ~riskLast.result.isValid => riskLast.result.reason # ""

\* C11 witness: on the normal path an instruction whose source instrument has
\* neither a price nor a holding is rejected with a reason
C11_UnpricedSourceRejected ==
  /\ riskLast.called /\ ~OnBypassPath
  /\ riskLast.agentState.isActive
  /\ riskLast.md.prices[riskLast.decision.fromToken] = 0
  /\ FindToken(riskLast.md, riskLast.decision.fromToken) = NULL
  /\ ~riskLast.result.isValid
  /\ riskLast.result.reason = "Trade amount below minimum threshold"


\* a step of SpecRisk that is a validateTrade call returning a rejection
RejectingCall == riskLast'.called /\ ~riskLast'.result.isValid

\* the entries of the window th that lie within the 60 minutes before nowMs
WithinHour(th, nowMs) == SelectSeq(th, LAMBDA ts : ts > nowMs - HourMs)

C12_PrunedStep ==
  RejectingCall =>
    /\ riskParams' = riskParams
    /\ tradeHistory' \in {tradeHistory, WithinHour(tradeHistory, now * TickMs)}
    /\ WithinHour(tradeHistory', now * TickMs) = WithinHour(tradeHistory, now * TickMs)
    /\ riskLast'.result.reason \notin {"Trade frequency limit exceeded",
                                        "Maximum drawdown threshold reached"}
         => tradeHistory' = tradeHistory

\* C12 (amended): a validateTrade call that returns a rejection leaves
\* riskParams unchanged and leaves the entries of tradeHistory recorded within
\* the trailing 60 minutes unchanged; a rejection by a check before the
\* frequency check (or on the bypass path) leaves tradeHistory identical,
\* while a rejection by the frequency or the drawdown check may only drop
\* the entries older than 60 minutes.
C12_RejectionKeepsRecentWindow == [][C12_PrunedStep]_vars

C12_IdenticalStep ==
  RejectingCall => (tradeHistory' = tradeHistory /\ riskParams' = riskParams)

\* C12 as stated: a validateTrade call that returns a rejection leaves
\* tradeHistory and riskParams identical, whichever check rejected.
C12_RejectionChangesNothing == [][C12_IdenticalStep]_vars

\* C12 witness: a rejection by the frequency check after which the window
\* has lost an entry older than 60 minutes
C12_RejectedAndPruned ==
  /\ riskLast.called /\ ~riskLast.result.isValid
  /\ riskLast.result.reason = "Trade frequency limit exceeded"
  /\ Len(tradeHistory) < Len(riskLast.before)
  /\ tradeHistory = WithinHour(riskLast.before, now * TickMs)

\* the latest call reached the trade-frequency check: normal path, and the
\* five checks before it pass
ReachedFrequencyCheck ==
  /\ riskLast.called /\ ~OnBypassPath
  /\ \A i \in 1..5 : ~FailingChecks[i]

\* number of entries of the window th recorded less than / at most 60 minutes
\* before nowMs
RecordedWithin(th, nowMs) == Len(SelectSeq(th, LAMBDA ts : ts > nowMs - HourMs))
RecordedWithinOrAt(th, nowMs) == Len(SelectSeq(th, LAMBDA ts : ts >= nowMs - HourMs))

\* C13: with K = maxTradesPerHour, a validateTrade call that reaches the
\* frequency check while K trades were recorded within the trailing 60
\* minutes is rejected with the frequency reason; once enough entries are
\* older than 60 minutes that fewer than K remain, the frequency check lets
\* the instruction through again.
C13_FrequencyWindow ==
  ReachedFrequencyCheck =>
    /\ RecordedWithin(riskLast.before, now * TickMs) >= riskParams.maxTradesPerHour
         => /\ ~riskLast.result.isValid
            /\ riskLast.result.reason = "Trade frequency limit exceeded"
    /\ RecordedWithinOrAt(riskLast.before, now * TickMs) < riskParams.maxTradesPerHour
         => riskLast.result.reason # "Trade frequency limit exceeded"

\* C13 witness: K trades are on record, one of them older than 60 minutes,
\* and the instruction is accepted
C13_AcceptedAgainAfterExpiry ==
  /\ ReachedFrequencyCheck
  /\ riskParams.maxTradesPerHour = LowTradesPerHour
  /\ Len(riskLast.before) >= riskParams.maxTradesPerHour
  /\ RecordedWithinOrAt(riskLast.before, now * TickMs) < riskParams.maxTradesPerHour
  /\ riskLast.result.isValid

\* the agent state of the latest call has a negative dailyPnL (a percentage)
\* whose magnitude exceeds maxDailyLoss (a fraction)
DailyLossBeyondLimit ==
  /\ riskLast.called
  /\ QLt(riskLast.agentState.dailyPnL, QInt(0))
  /\ QGt(QDiv(QAbs(riskLast.agentState.dailyPnL), QInt(100)), riskParams.maxDailyLoss)

\* C15 (amended): when dailyPnL is negative and its magnitude exceeds
\* maxDailyLoss, validateTrade on the normal path with an active agent
\* rejects with the daily-loss reason, for every instruction, snapshot and
\* frequency window; an inactive agent is rejected as inactive instead, and
\* on the bypass path the outcome is that of the minimal check.
C15_DailyLossRejectsOnNormalPath ==
  DailyLossBeyondLimit =>
    IF OnBypassPath
    THEN riskLast.result.isValid
           = (getTokenBalance(riskLast.md, riskLast.decision.fromToken) > 0)
    ELSE /\ ~riskLast.result.isValid
         /\ riskLast.result.reason =
              IF riskLast.agentState.isActive THEN "Daily loss limit exceeded"
              ELSE "Agent is not active"

\* C15 as stated: when dailyPnL is negative and its magnitude exceeds
\* maxDailyLoss, validateTrade rejects with the daily-loss reason for every
\* instruction and every value of the other inputs.
C15_DailyLossAlwaysRejects ==
  DailyLossBeyondLimit =>
    /\ ~riskLast.result.isValid
    /\ riskLast.result.reason = "Daily loss limit exceeded"

\* C15 witness: an instruction that passes every other check is rejected
\* for the daily loss
C15_SoundTradeRejectedForLoss ==
  /\ DailyLossBeyondLimit /\ ~OnBypassPath
  /\ \A i \in {1, 3, 4, 5, 6, 7} : ~FailingChecks[i]
  /\ ~riskLast.result.isValid
  /\ riskLast.result.reason = "Daily loss limit exceeded"

\* the latest call reached the balance check: normal path, and the four
\* checks before it pass
ReachedBalanceCheck ==
  /\ riskLast.called /\ ~OnBypassPath
  /\ \A i \in 1..4 : ~FailingChecks[i]

\* amount of the source instrument held in the snapshot of the latest call
SourceBalance == QInt(getTokenBalance(riskLast.md, riskLast.decision.fromToken))

\* C16 (amended): with buffer = 0.01 the balance check rejects every
\* instruction whose amount times (1 + buffer) exceeds the balance of the
\* source instrument, an amount between balance / (1 + buffer) and
\* balance * (1 + buffer) included, and lets through every instruction
\* whose amount times (1 + buffer) is at most the balance.
C16_BufferOnRequiredAmount ==
  ReachedBalanceCheck =>
    IF QGt(QMul(riskLast.decision.amount, Q(101, 100)), SourceBalance)
    THEN /\ ~riskLast.result.isValid
         /\ riskLast.result.reason = "Insufficient balance for trade"
    ELSE riskLast.result.reason # "Insufficient balance for trade"

\* C16 as stated: the balance check rejects every instruction whose amount
\* exceeds balance * (1 + buffer) and lets through an instruction whose
\* amount is just below balance * (1 + buffer).
C16_BufferOnBalance ==
  ReachedBalanceCheck =>
    /\ QGt(riskLast.decision.amount, QMul(SourceBalance, Q(101, 100)))
         => /\ ~riskLast.result.isValid
            /\ riskLast.result.reason = "Insufficient balance for trade"
    /\ (/\ QGe(riskLast.decision.amount, SourceBalance)
        /\ QLt(riskLast.decision.amount, QMul(SourceBalance, Q(101, 100))))
         => riskLast.result.reason # "Insufficient balance for trade"

\* C16 witness: an amount just below balance * (1 + buffer) is rejected by
\* the balance check
C16_JustBelowRejected ==
  /\ ReachedBalanceCheck
  /\ QGt(riskLast.decision.amount, SourceBalance)
  /\ QLt(riskLast.decision.amount, QMul(SourceBalance, Q(101, 100)))
  /\ ~riskLast.result.isValid
  /\ riskLast.result.reason = "Insufficient balance for trade"

\* ------------------------------------------------------------------------
\* Properties of the TradingAgent (specification SpecAgent)
\* ------------------------------------------------------------------------
\* what the latest run of an operation did satisfies the gate's contract:
\* a call of the execution collaborator, a totalTrades increment and a
\* recordTrade each follow a validateTrade of the same instruction that
\* returned isValid = true
GateRespected(log) ==
  \A i \in 1..Len(log) :
    log[i].kind \in {"execute", "count", "record"} =>
      /\ log[1].kind = "validate"
      /\ log[1].isValid
      /\ log[1].decision = log[i].decision

\* the operation stands after an accepted validateTrade of its instruction,
\* at the call of the execution collaborator
AcceptedAndHanded(op) ==
  /\ op.pc = "executing"
  /\ op.log = <<Event("validate", op.decision, TRUE), Event("execute", op.decision, TRUE)>>

C8_Step ==
  /\ GateRespected(cycle'.log)
  /\ GateRespected(cmd'.log)
  /\ (agentState'.totalTrades # agentState.totalTrades \/ Len(tradeHistory') > Len(tradeHistory)) =>
       \/ AcceptedAndHanded(cycle) /\ cycle'.pc = "idle"
       \/ AcceptedAndHanded(cmd) /\ cmd'.pc = "idle"

\* C8: in every step, a call of the execution collaborator, a totalTrades
\* increment and a recordTrade follow a validateTrade of the same operation
\* on the same instruction that returned isValid = true, for cycles and for
\* external commands; a rejected instruction is followed by none of them.
C8_ExecuteOnlyAfterAccept == [][C8_Step]_vars

\* C8 witness: the cycle's instruction was rejected and nothing followed it,
\* while an external command was accepted, executed, counted and recorded
C8_RejectedAndExecuted ==
  /\ cycle.pc = "idle"
  /\ Len(cycle.log) = 1 /\ cycle.log[1].kind = "validate" /\ ~cycle.log[1].isValid
  /\ Len(cmd.log) = 4 /\ cmd.log[4].kind = "record"
  /\ agentState.totalTrades = 1 /\ Len(tradeHistory) = 1

\* the latest run of the operation counted a trade or recorded one in the
\* frequency window
CountedOrRecorded(op) ==
  \E i \in 1..Len(op.log) : op.log[i].kind \in {"count", "record"}

\* C14: a trade is counted in totalTrades and recorded in the frequency
\* window only when its execution succeeded; after an execution that
\* reported success = false (or threw) nothing is counted or recorded.
C14_RecordedOnlyOnSuccess ==
  \A op \in {cycle, cmd} :
    CountedOrRecorded(op) => (op.result # NULL /\ op.result.success)

\* ------------------------------------------------------------------------
\* Properties of the signal evaluators (specification SpecEval)
\* ------------------------------------------------------------------------
\* the evaluator named source has just answered
Answered(source) == lastCall.calls # <<>> /\ lastCall.calls[1].source = source

\* the instrument an instruction is about: the one sold, or the one bought
Subject(d) == IF d.action = "sell" THEN d.fromToken ELSE d.toToken

\* entry i of the target map is off target by more than the threshold
Deviates(i) ==
  LET entry == params.targetAllocations[i]
  IN QGt(QAbs(QSub(CurrentAllocation(lastCall.md, entry.token), entry.target)),
         params.rebalanceThreshold)

Overweight(i) ==
  LET entry == params.targetAllocations[i]
  IN QGt(CurrentAllocation(lastCall.md, entry.token), entry.target)

\* the trade that would bring entry i back to target can be made: the excess
\* is priced and worth the minimum trade amount, or the deficit is worth the
\* minimum trade amount and covered by the value held in USDC
Tradable(i) ==
  LET entry == params.targetAllocations[i]
      gap == QMul(QAbs(QSub(CurrentAllocation(lastCall.md, entry.token), entry.target)),
                  QInt(TotalValue(lastCall.md)))
      usdc == FindToken(lastCall.md, USDC)
  IN /\ QGe(gap, params.minTradeAmount)
     /\ IF Overweight(i) THEN lastCall.md.prices[entry.token] # 0
        ELSE usdc # NULL /\ QGe(QInt(TokenValue(usdc)), gap)

DeviatingEntries == {i \in 1..Len(params.targetAllocations) : Deviates(i)}
TradableEntries == {i \in DeviatingEntries : Tradable(i)}
First(S) == CHOOSE i \in S : \A j \in S : i <= j

\* the instruction is about entry i of the target map, in the direction
\* that closes its gap
ClosesGapOf(d, i) ==
  /\ d # NULL
  /\ Subject(d) = params.targetAllocations[i].token
  /\ d.action = IF Overweight(i) THEN "sell" ELSE "buy"

\* C17 (amended): the Rebalancer's instruction is about the first instrument
\* in the target map's enumeration order that is off target by more than
\* rebalanceThreshold and whose trade can be made (sell if current > target,
\* buy if current < target), never about one enumerated after it; an
\* instrument off target whose trade cannot be made is passed over, and
\* there is no instruction when no instrument qualifies.
C17_FirstTradableDeviation ==
  Answered("rebalance") =>
    IF TradableEntries = {} THEN lastCall.decision = NULL
    ELSE ClosesGapOf(lastCall.decision, First(TradableEntries))

\* C17 as stated: if X is the first instrument in the target map's
\* enumeration order that is off target by more than rebalanceThreshold, the
\* Rebalancer's instruction is about X, in the direction that closes its
\* gap, and never about an instrument enumerated after X.
C17_FirstDeviation ==
  (Answered("rebalance") /\ DeviatingEntries # {} /\ lastCall.decision # NULL) =>
    ClosesGapOf(lastCall.decision, First(DeviatingEntries))

\* C17 witness: the first instrument off target is passed over and the
\* instruction is about a later one
C17_LaterInstrumentChosen ==
  /\ Answered("rebalance")
  /\ TradableEntries # {}
  /\ First(DeviatingEntries) < First(TradableEntries)
  /\ ClosesGapOf(lastCall.decision, First(TradableEntries))

\* the Rebalancer has answered on the scenario: targets USDC 0.40, WETH 0.35,
\* WBTC 0.25 in that order, current allocations 0.20, 0.35, 0.45, threshold
\* 0.05
RebalanceScenario ==
  /\ Answered("rebalance")
  /\ params.targetAllocations = DefaultParams.targetAllocations
  /\ params.rebalanceThreshold = Q(5, 100)
  /\ CurrentAllocation(lastCall.md, USDC) = Q(20, 100)
  /\ CurrentAllocation(lastCall.md, WETH) = Q(35, 100)
  /\ CurrentAllocation(lastCall.md, WBTC) = Q(45, 100)
  /\ QGe(QMul(Q(20, 100), QInt(TotalValue(lastCall.md))), params.minTradeAmount)

\* C18: on the scenario the Rebalancer emits a sell of WBTC (overweight by
\* 0.20) into the stable instrument.
C18_ScenarioSellsOverweight ==
  RebalanceScenario =>
    /\ lastCall.decision # NULL
    /\ lastCall.decision.action = "sell"
    /\ lastCall.decision.fromToken = WBTC
    /\ lastCall.decision.toToken = USDC

\* every row the repository holds for the token has the snapshot's price
FlatAt(token) ==
  \A i \in 1..Len(history[token]) : history[token][i].price = lastCall.md.prices[token]

\* C19: when every available historical point of an instrument has the same
\* price p and the current price is p, Mean-Reversion emits no instruction,
\* and Trend-Following computes equal short and long SMAs and emits no
\* instruction, for any lookback and window lengths.
C19_FlatPricesNoSignal ==
  /\ (Answered("meanReversion") /\ FlatAt(WETH) /\ FlatAt(WBTC)) => lastCall.decision = NULL
  /\ (Answered("trend") /\ FlatAt(WETH) /\ FlatAt(WBTC)) => lastCall.decision = NULL
  /\ (Answered("trendFlat") /\ lastCall.md.rows >= params.trendFollowingLongSmaPeriod) =>
       LET long == [i \in 1..params.trendFollowingLongSmaPeriod |-> lastCall.md.price]
           short == [i \in 1..params.trendFollowingShortSmaPeriod |-> lastCall.md.price]
       IN /\ calculateSMAFloat(short) = calculateSMAFloat(long)
          /\ lastCall.decision = NULL

\* on whole-number prices the evaluators are silent on a flat market
C19_FlatWholePricesNoSignal ==
  (Answered("meanReversion") \/ Answered("trend")) /\ FlatAt(WETH) /\ FlatAt(WBTC)
    => lastCall.decision = NULL

\* the last breakoutLookbackPeriod prices the repository holds for the token
\* (fewer if it holds fewer)
LookbackPrices(token) ==
  getMarketDataByToken(history, token, params.breakoutLookbackPeriod)

\* square of the coefficient of variation (population standard deviation
\* over mean) of a sequence of positive prices: (n * sum(x^2) - S^2) / S^2
CoefficientOfVariationSq(prices) ==
  LET n == Len(prices)
      S == SumSeq(prices)
      squares == [i \in 1..n |-> prices[i] * prices[i]]
  IN Q(n * SumSeq(squares) - S * S, S * S)

\* the token has a full lookback window whose coefficient of variation is
\* at least breakoutVolatilityThreshold
TooVolatile(token) ==
  /\ Len(LookbackPrices(token)) = params.breakoutLookbackPeriod
  /\ QGe(CoefficientOfVariationSq(LookbackPrices(token)),
         QMul(params.breakoutVolatilityThreshold, params.breakoutVolatilityThreshold))

\* C20: checkBreakout emits no instruction for an instrument when the
\* coefficient of variation of its last breakoutLookbackPeriod prices is at
\* least breakoutVolatilityThreshold, whatever the current price.
C20_VolatileNoBreakout ==
  Answered("breakout") =>
    \A token \in {WETH, WBTC} :
      TooVolatile(token) => (lastCall.decision = NULL \/ Subject(lastCall.decision) # token)

\* C20 witness: WETH is held, its window is too volatile and the current
\* price lies below the window's low by more than the confirmation factor,
\* and there is no instruction about WETH
C20_VolatileBelowRangeSilent ==
  /\ Answered("breakout")
  /\ TooVolatile(WETH)
  /\ getTokenBalance(lastCall.md, WETH) > 0
  /\ QLt(QInt(lastCall.md.prices[WETH]),
         QMul(QInt(MinSeq(LookbackPrices(WETH))),
              QSub(QInt(1), params.breakoutConfirmationFactor)))
  /\ lastCall.decision = NULL

\* ------------------------------------------------------------------------
\* Properties of the risk gate, continued (specification SpecRisk)
\* ------------------------------------------------------------------------
\* no entry of the window th is older than 60 minutes at nowMs
NoneOlderThanAnHour(th, nowMs) == \A i \in 1..Len(th) : th[i] >= nowMs - HourMs

\* C26 as stated: after every validateTrade call, whatever its outcome and
\* path, the trade-frequency window holds no entry older than 60 minutes
C26_PrunedAfterEveryCall ==
  riskLast.called => NoneOlderThanAnHour(tradeHistory, now * TickMs)

\* C26 (amended): a validateTrade call that reaches the trade-frequency
\* check (normal path, the five checks before it pass) leaves in the window
\* exactly the entries recorded less than 60 minutes ago, whatever the
\* frequency and drawdown checks then answer; every other call (bypass path,
\* or rejected by an earlier check) leaves the window as it was, entries
\* older than 60 minutes included
C26_PrunedWhenFrequencyChecked ==
  riskLast.called =>
    IF ReachedFrequencyCheck
    THEN /\ tradeHistory = WithinHour(riskLast.before, now * TickMs)
         /\ NoneOlderThanAnHour(tradeHistory, now * TickMs)
    ELSE tradeHistory = riskLast.before

\* C26 witness: an accepted call that dropped an entry from the window
C26_AcceptedAndPruned ==
  /\ ReachedFrequencyCheck
  /\ riskLast.result.isValid
  /\ Len(riskLast.before) > Len(tradeHistory)
  /\ Len(tradeHistory) > 0

\* the latest call's instruction got through the balance check
PassedBalanceCheck ==
  ReachedBalanceCheck /\ riskLast.result.reason # "Insufficient balance for trade"

\* the source instrument of the latest call is held in its snapshot
SourceHeld == FindToken(riskLast.md, riskLast.decision.fromToken) # NULL

\* amount * (1 + 0.01) of the latest call's instruction
BufferedAmount == QMul(riskLast.decision.amount, Q(101, 100))

\* C27 as stated: the balance check passes only if the balance of the source
\* instrument strictly exceeds amount * 1.01, so that a balance of exactly
\* amount * 1.01 is rejected, as is a source instrument absent from the
\* portfolio
C27_PassesOnlyAbove ==
  PassedBalanceCheck => (SourceHeld /\ QGt(SourceBalance, BufferedAmount))

\* C27 (amended): the balance check passes if and only if the source
\* instrument is held and its balance is at least amount * 1.01: a balance
\* of exactly amount * 1.01 passes, a smaller one and an absent source
\* instrument are rejected
C27_PassesFromBufferedAmount ==
  ReachedBalanceCheck =>
    (PassedBalanceCheck <=> (SourceHeld /\ QGe(SourceBalance, BufferedAmount)))

\* C27 witness: a balance of exactly amount * 1.01 (101 for an amount of
\* 100, both exact as doubles) passes the balance check
C27_ExactlyBufferedPasses ==
  /\ PassedBalanceCheck
  /\ SourceHeld
  /\ riskLast.decision.amount = QInt(100)
  /\ SourceBalance = BufferedAmount

\* an instruction whose source instrument is absent reaches the balance
\* check and is rejected there
C27_AbsentSourceRejected ==
  /\ ReachedBalanceCheck
  /\ ~SourceHeld
  /\ riskLast.result.reason = "Insufficient balance for trade"

\* the latest call reached the position-size check: normal path, and the
\* three checks before it pass
ReachedPositionCheck ==
  /\ riskLast.called /\ ~OnBypassPath
  /\ \A i \in 1..3 : ~FailingChecks[i]

\* USD value of the holding of token t in the snapshot of the latest call,
\* 0 when t is not held
HeldValue(t) ==
  LET held == FindToken(riskLast.md, t)
  IN IF held = NULL THEN 0 ELSE held.amount * held.price

\* value of the affected position after the trade of the latest call: the
\* destination instrument plus the amount for a buy, the source instrument
\* minus amount * price for a sell
PostTradeValue ==
  LET d == riskLast.decision
  IN IF d.action = "buy" THEN QAdd(QInt(HeldValue(d.toToken)), d.amount)
     ELSE QSub(QInt(HeldValue(d.fromToken)),
               QMul(d.amount, QInt(riskLast.md.prices[d.fromToken])))

\* maxPositionSize * total value
PositionCap == QMul(QInt(TotalValue(riskLast.md)), riskParams.maxPositionSize)

\* C28: the position-size check rejects exactly when the post-trade value
\* of the affected position exceeds maxPositionSize * total value; for a
\* buy that position is the destination instrument (current value + trade
\* value), for a sell the source instrument (current value - trade value)
C28_RejectsExactlyAboveCap ==
  ReachedPositionCheck =>
    ((/\ ~riskLast.result.isValid
      /\ riskLast.result.reason = "Trade would exceed maximum position size")
       <=> QGt(PostTradeValue, PositionCap))

\* C28 witness: a sell that reduces a position above the cap is rejected by
\* the position-size check because what remains is still above the cap
C28_ReducingSellRejected ==
  /\ ReachedPositionCheck
  /\ riskLast.decision.action = "sell"
  /\ QGt(QInt(HeldValue(riskLast.decision.fromToken)), PostTradeValue)
  /\ QGt(PostTradeValue, PositionCap)
  /\ ~riskLast.result.isValid
  /\ riskLast.result.reason = "Trade would exceed maximum position size"

\* a buy that takes the destination instrument above the cap is rejected
C28_BuyAboveCapRejected ==
  /\ ReachedPositionCheck
  /\ riskLast.decision.action = "buy"
  /\ QLe(QInt(HeldValue(riskLast.decision.toToken)), PositionCap)
  /\ QGt(PostTradeValue, PositionCap)
  /\ riskLast.result.reason = "Trade would exceed maximum position size"

\* ------------------------------------------------------------------------
\* Properties of pauseTrading / resumeTrading (specification SpecAgent)
\* ------------------------------------------------------------------------
\* this step hands the command's instruction to the execution collaborator
CommandHandedOver == cmd.pc # "executing" /\ cmd'.pc = "executing"

\* this step takes a scheduled cycle past its shouldStopTrading check
CyclePassesTopCheck == cycle.pc = "idle" /\ cycle'.pc # "idle"

\* C21: between the completion of pauseTrading and the next resumeTrading no
\* external command is handed to the execution collaborator and no scheduled
\* cycle gets past its top-of-cycle check, so that the only instruction that
\* can still be handed over is that of a cycle that had passed the check
\* before the pause
C21_NoHandOverWhilePaused ==
  [][paused /\ paused' => ~CommandHandedOver /\ ~CyclePassesTopCheck]_vars

\* the same outside the modes that bypass the ordered checks (holds)
C21_NoHandOverWhilePausedOrdinaryMode ==
  [][paused /\ paused' /\ ~params.lossStrategyEnabled
       => ~CommandHandedOver /\ ~CyclePassesTopCheck]_vars

\* ------------------------------------------------------------------------
\* Properties of makeDecision across its awaits (specification SpecAwait)
\* ------------------------------------------------------------------------
\* C22: within one makeDecision call every getParams() of the orchestrator
\* and of the evaluators it invokes returns the same parameter values, also
\* when the control surface changes a parameter while the call is suspended
C22_SingleParameterSnapshot ==
  \A i, j \in 1..Len(pending.reads) : pending.reads[i] = pending.reads[j]

\* ------------------------------------------------------------------------
\* Properties of start / stop / runTradingLoop (specifications SpecLoop and
\* SpecLoopFair)
\* ------------------------------------------------------------------------
\* runTradingLoop invocations that have begun and not returned
ActiveLoops == {i \in 1..Len(loops) : loops[i].pc \in {"cycle", "sleeping"}}

\* executeTradingCycle calls in progress
CyclesInProgress == {i \in 1..Len(loops) : loops[i].pc = "cycle"}

\* C23: whatever the sequence of start(), stop() and timer expiries, at most
\* one trading loop is active and at most one trading cycle is in progress
C23_OneLoopOneCycle ==
  /\ Cardinality(ActiveLoops) <= 1
  /\ Cardinality(CyclesInProgress) <= 1

\* two cycles in progress at once
C23_TwoCyclesAtOnce == Cardinality(CyclesInProgress) >= 2

\* loop i sleeps after a cycle in which a collaborator failed
SleepsAfterFailure(i) ==
  i <= Len(loops) /\ loops[i].pc = "sleeping" /\ loops[i].outcome \in FailedOutcomes

\* loop i is inside a cycle again
InCycle(i) == i <= Len(loops) /\ loops[i].pc = "cycle"

\* C24: a cycle in which a collaborator failed does not end the trading loop:
\* unless isRunning is set to false, the loop begins another cycle
C24_LoopSurvivesFailure ==
  /\ [][\A i \in 1..Len(loops) :
          (loops[i].pc = "cycle" /\ loops'[i].pc # "cycle"
             /\ loops'[i].outcome \in FailedOutcomes) => loops'[i].pc = "sleeping"]_vars
  /\ \A i \in 1..MaxLoops : SleepsAfterFailure(i) ~> (InCycle(i) \/ ~isRunning)

\* a loop is inside a cycle that follows a failed one
C24_CycleAfterFailedCycle ==
  \E i \in 1..Len(loops) : loops[i].pc = "cycle" /\ loops[i].outcome \in FailedOutcomes

\* ------------------------------------------------------------------------
\* Properties of makeDecision with faulting evaluators (specification
\* SpecFault)
\* ------------------------------------------------------------------------
\* the evaluator consulted i-th threw, and the call went on to consult the
\* next source of the cascade
WentOnAfter(i) == i < Len(lastCall.calls)

\* C25: a fault inside any single evaluator of the cascade, the Rebalancer
\* and the Momentum fallback included, counts as "no signal" of that
\* evaluator only: the lower-priority evaluators and the guaranteed
\* fallbacks are still run in that same makeDecision call
C25_FaultIsNoSignal ==
  \A i \in 1..Len(lastCall.calls) : lastCall.calls[i].result = Thrown => WentOnAfter(i)

\* the same for the strategy classes alone (holds)
C25_StrategyFaultIsNoSignal ==
  \A i \in 1..Len(lastCall.calls) :
    (lastCall.calls[i].result = Thrown /\ lastCall.calls[i].source # "rebalance")
      => WentOnAfter(i)

\* three evaluators threw and a fallback answered
C25_FallbackAfterFaults ==
  /\ Len(lastCall.calls) > 0
  /\ \E i \in 1..Len(lastCall.calls) : lastCall.calls[i].result = Thrown
  /\ lastCall.calls[Len(lastCall.calls)].source = "arbitrage"
  /\ lastCall.decision # NULL

\* ------------------------------------------------------------------------
\* Properties of TrendFollowingStrategy.checkTrendFollowing (specification
\* SpecEval)
\* ------------------------------------------------------------------------
\* the stored prices of token t, oldest first
StoredPrices(t) == [i \in 1..Len(history[t]) |-> history[t][i].price]

\* SMA over the len stored prices of token t that end at row last
SmaEndingAt(t, len, last) == calculateSMA(SubSeq(StoredPrices(t), last - len + 1, last))

\* the short SMA was at or below the long SMA one point ago and is above it
\* now, every SMA over a full window of its period
GoldenCross(t) ==
  LET n == Len(history[t])
      short == params.trendFollowingShortSmaPeriod
      long == params.trendFollowingLongSmaPeriod
  IN /\ QLe(SmaEndingAt(t, short, n - 1), SmaEndingAt(t, long, n - 1))
     /\ QGt(SmaEndingAt(t, short, n), SmaEndingAt(t, long, n))

DeathCross(t) ==
  LET n == Len(history[t])
      short == params.trendFollowingShortSmaPeriod
      long == params.trendFollowingLongSmaPeriod
  IN /\ QGe(SmaEndingAt(t, short, n - 1), SmaEndingAt(t, long, n - 1))
     /\ QLt(SmaEndingAt(t, short, n), SmaEndingAt(t, long, n))

\* Trend-Following answered with an instruction about a token of which
\* more rows are stored than the long period, so that a full long window
\* ends at the second-newest row
TrendSignalOnFullWindows ==
  /\ Answered("trend") /\ lastCall.decision # NULL
  /\ Len(history[Subject(lastCall.decision)]) > params.trendFollowingLongSmaPeriod

\* C29: Trend-Following emits a buy only on a golden cross (previous short
\* SMA <= previous long SMA and current short SMA > current long SMA) and a
\* sell only on a death cross (previous short >= previous long and current
\* short < current long), the previous SMAs each computed over a window of
\* the same length as the current one ending at the second-newest point
C29_SignalOnlyOnCross ==
  TrendSignalOnFullWindows =>
    /\ lastCall.decision.action = "buy" => GoldenCross(Subject(lastCall.decision))
    /\ lastCall.decision.action = "sell" => DeathCross(Subject(lastCall.decision))

\* what the previous long SMA is in the code: the average of the long - 1
\* rows before the newest one, the query having returned long rows only
PrevLongOverFetchedRows(t) ==
  LET n == Len(history[t])
      long == params.trendFollowingLongSmaPeriod
  IN IF long = 1 THEN QInt(0) ELSE SmaEndingAt(t, long - 1, n - 1)

\* a buy is emitted only when the current short SMA is above the current
\* long one and the previous short SMA is at or below the average of the
\* long - 1 rows before the newest; a sell in the mirrored case
C29_CrossOverFetchedRows ==
  (Answered("trend") /\ lastCall.decision # NULL) =>
    LET t == Subject(lastCall.decision)
        n == Len(history[t])
        short == params.trendFollowingShortSmaPeriod
        long == params.trendFollowingLongSmaPeriod
    IN /\ lastCall.decision.action = "buy" =>
            /\ QLe(SmaEndingAt(t, short, n - 1), PrevLongOverFetchedRows(t))
            /\ QGt(SmaEndingAt(t, short, n), SmaEndingAt(t, long, n))
       /\ lastCall.decision.action = "sell" =>
            /\ QGe(SmaEndingAt(t, short, n - 1), PrevLongOverFetchedRows(t))
            /\ QLt(SmaEndingAt(t, short, n), SmaEndingAt(t, long, n))

\* a buy in a steady rise: the short SMA was above the long SMA one point
\* ago already
C29_BuyWithoutCross ==
  /\ TrendSignalOnFullWindows
  /\ lastCall.decision.action = "buy"
  /\ ~GoldenCross(Subject(lastCall.decision))

\* a buy on a golden cross over full windows
C29_BuyOnGoldenCross ==
  /\ TrendSignalOnFullWindows
  /\ lastCall.decision.action = "buy"
  /\ GoldenCross(Subject(lastCall.decision))

\* ------------------------------------------------------------------------
\* Properties of the instructions makeDecision returns (specification
\* SpecParams)
\* ------------------------------------------------------------------------
\* confidence within [0, 1] and, unless the action is hold, amount > 0
WellFormedInstruction(d) ==
  /\ QGe(d.confidence, QInt(0)) /\ QLe(d.confidence, QInt(1))
  /\ d.action # "hold" => QGt(d.amount, QInt(0))

\* C30: every non-null instruction returned by makeDecision, from any
\* evaluator, fallback or mode and for any parameter values the control
\* surface can set, has confidence within [0, 1] and, unless its action is
\* hold, an amount strictly greater than 0
C30_InstructionsWellFormed ==
  (lastCall.calls # <<>> /\ lastCall.decision # NULL) =>
    WellFormedInstruction(lastCall.decision)

\* the same with guaranteedMemeTradeAmountUSD as constructed
C30_WellFormedWithDefaultAmount ==
  (/\ lastCall.calls # <<>> /\ lastCall.decision # NULL
   /\ params.guaranteedMemeTradeAmountUSD = DefaultParams.guaranteedMemeTradeAmountUSD) =>
    WellFormedInstruction(lastCall.decision)

\* the guaranteed fallback returns a buy of nothing
C30_BuyOfNothing ==
  /\ lastCall.calls # <<>>
  /\ lastCall.decision # NULL
  /\ lastCall.decision.action = "buy"
  /\ lastCall.decision.isGuaranteedMemeTrade
  /\ lastCall.decision.amount = QInt(0)

\* ------------------------------------------------------------------------
\* Properties of the StrategyParamsManager (specification SpecStore)
\* ------------------------------------------------------------------------
\* the latest operation was updateParams and this.params now has, under
\* every key of the argument, the argument's value and, under every other
\* key, the value it had before
UpdateChangesGivenKeys ==
  store.last.op = "updateParams" =>
    /\ DOMAIN CurrentContents = ParamKeys
    /\ \A k \in ParamKeys :
         CurrentContents[k] = IF k \in DOMAIN store.last.arg THEN store.last.arg[k]
                              ELSE store.last.before[k]

\* every record getParams has returned holds what it held when returned
SnapshotsKeepValues ==
  \A i \in 1..Len(store.handed) :
    Contents(store, store.objects[store.handed[i].ref]) = store.handed[i].contents

\* C31: updateParams with a partial record changes exactly the keys present
\* in it and leaves every other parameter unchanged, and neither
\* updateParams nor setParam alters any field of a record previously
\* returned by getParams
C31_UpdateIsPartialAndSnapshotsFrozen ==
  UpdateChangesGivenKeys /\ SnapshotsKeepValues

\* C31 witness: a record handed out earlier differs from this.params under
\* all three keys, after a setParam following an updateParams
C31_SnapshotOutlivesUpdates ==
  /\ store.last.op = "setParam"
  /\ \E i \in 1..Len(store.handed) :
       /\ store.handed[i].ref < store.params
       /\ \A k \in ParamKeys : store.handed[i].contents[k] # CurrentContents[k]

\* ------------------------------------------------------------------------
\* Properties of the rotation fallback's notional (specification SpecArb)
\* ------------------------------------------------------------------------
\* USD notional of an instruction of the rotation fallback on snapshot md:
\* the amount of a buy, amount * price of the instrument sold for a sell
NotionalOf(d, md) ==
  IF d.action = "buy" THEN d.amount ELSE QMul(d.amount, QInt(md.prices[d.fromToken]))

RotationNotionals == {10, 18, 26, 34, 42}

\* the instruction of the latest invocation has the notional that belongs
\* to the counter
NotionalFollowsCounter ==
  (arbLast.called /\ arbLast.decision # NULL) =>
    /\ NotionalOf(arbLast.decision, arbMd) = QInt(10 + 8 * (arbState.tradeCounter % 5))
    /\ \E n \in RotationNotionals : NotionalOf(arbLast.decision, arbMd) = QInt(n)

\* an invocation, whatever it returns, adds one to the counter, and nothing
\* else changes it
CounterStep ==
  IF arbLast'.called THEN arbState'.tradeCounter = arbState.tradeCounter + 1
  ELSE arbState'.tradeCounter = arbState.tradeCounter

\* C32: the rotation fallback's USD notional is always one of {10, 18, 26,
\* 34, 42}: it equals 10 + 8 * (tradeCounter mod 5), and tradeCounter
\* increases by exactly one on every checkArbitrage invocation, including
\* invocations that return null, so the notional cycles with period 5
C32_NotionalCycles == []NotionalFollowsCounter /\ [][CounterStep]_vars

\* C32 witness: an instruction of the second period, with the notional of
\* the invocation five invocations earlier
C32_SecondPeriod ==
  /\ arbLast.called /\ arbLast.decision # NULL
  /\ arbState.tradeCounter > 5
  /\ NotionalOf(arbLast.decision, arbMd) = QInt(18)

\* an invocation that returned null has counted
C32_NullInvocationCounted ==
  /\ arbLast.called /\ arbLast.decision = NULL
  /\ arbState.tradeCounter > 1

\* ------------------------------------------------------------------------
\* Properties of POST /command (specification SpecServer)
\* ------------------------------------------------------------------------
Answered400 == server.status = 400 /\ server.error # "" /\ server.calls = <<>>
PassedOnce == server.calls = <<server.body>>

\* the body lacks a required field, has an action outside {buy, sell,
\* hold}, a non-positive or non-numeric amount, or a confidence outside
\* [0, 1]
ListedDefect ==
  LET b == server.body
  IN \/ \E i \in 1..Len(requiredFields) : b[requiredFields[i]] = Undefined
     \/ b["action"] \notin {JsonString("buy"), JsonString("sell"), JsonString("hold")}
     \/ b["amount"].t # "number" \/ QLe(b["amount"].n, QInt(0))
     \/ /\ b["confidence"].t = "number"
        /\ (QLt(b["confidence"].n, QInt(0)) \/ QGt(b["confidence"].n, QInt(1)))

\* the same with a required field that is empty, null or 0 counted as
\* lacking and a confidence that is there but not a number counted as
\* outside [0, 1]
ListedOrFalsyDefect ==
  LET b == server.body
  IN \/ ListedDefect
     \/ \E i \in 1..Len(requiredFields) : Falsy(b[requiredFields[i]])
     \/ b["confidence"].t \notin {"undefined", "number"}

\* C33 as stated: POST /command rejects with an error and never invokes
\* processExternalCommand when the body lacks any of action, fromToken,
\* toToken, amount, reason, has an action outside {buy, sell, hold}, a
\* non-positive or non-numeric amount, or a confidence outside [0, 1];
\* otherwise the decision is passed unchanged to processExternalCommand
\* exactly once
C33_RejectsListedElsePasses ==
  server.status # 0 => IF ListedDefect THEN Answered400 ELSE PassedOnce

\* C33 (amended): POST /command rejects with status 400 and never invokes
\* processExternalCommand when one of action, fromToken, toToken, amount,
\* reason is absent or falsy (empty string, null, 0), the action is
\* outside {buy, sell, hold}, the amount is not a number or not positive,
\* or a confidence is given that is not a number within [0, 1]; otherwise
\* the decision is passed unchanged to processExternalCommand exactly once
C33_RejectsFalsyElsePasses ==
  server.status # 0 => IF ListedOrFalsyDefect THEN Answered400 ELSE PassedOnce

\* C33 witness: a body with every required field, a valid action and a
\* positive amount is rejected for its empty reason
C33_EmptyReasonRejected ==
  /\ Answered400
  /\ ~ListedDefect
  /\ server.body["reason"] = JsonString("")

\* a body without confidence is passed on as it is
C33_PassedWithoutConfidence ==
  /\ PassedOnce
  /\ server.status = 200
  /\ server.body["confidence"] = Undefined

\* ------------------------------------------------------------------------
\* Source and destination of the instructions of makeDecision
\* (specification Spec)
\* ------------------------------------------------------------------------
\* makeDecision has just returned an instruction in normal mode (advisory
\* and loss-seeking mode off)
NormalModeInstruction ==
  /\ lastCall.calls # <<>> /\ lastCall.decision # NULL
  /\ ~params.llmEnabled /\ ~params.lossStrategyEnabled

\* C34: no instruction returned by makeDecision in normal mode has the same
\* source and destination instrument; in particular the Rebalancer never
\* emits a buy of the stable instrument paid for with the stable instrument
C34_SourceDiffersFromDestination ==
  NormalModeInstruction => lastCall.decision.fromToken # lastCall.decision.toToken

\* the Rebalancer's instruction trades the stable instrument for itself
C34_StableForStable ==
  /\ NormalModeInstruction
  /\ lastCall.decision.reason = "Rebalancing"
  /\ lastCall.decision.fromToken = USDC /\ lastCall.decision.toToken = USDC

\* the same without the Rebalancer's instructions
C34_OtherSourcesDiffer ==
  (NormalModeInstruction /\ lastCall.decision.reason # "Rebalancing") =>
    lastCall.decision.fromToken # lastCall.decision.toToken

\* ------------------------------------------------------------------------
\* Properties of the trade-frequency window under interleaving
\* (specification SpecRace)
\* ------------------------------------------------------------------------
\* trades recorded within the trailing 60 minutes; under SpecRace every
\* recorded trade was accepted on the normal validation path (no bypass
\* mode is on, no instruction carries the bypass marker)
RecordedInTrailingHour ==
  Len(SelectSeq(tradeHistory, LAMBDA ts : ts > now * TickMs - HourMs))

\* C35: at every moment, the number of trades that were accepted on the
\* normal validation path and recorded within the trailing 60 minutes is
\* at most maxTradesPerHour, also when an external command interleaves
\* with a scheduled cycle between its validateTrade and recordTrade steps
C35_WindowWithinLimit == RecordedInTrailingHour <= riskParams.maxTradesPerHour

\* the cycle and the command were both accepted against the same window
C35_BothAcceptedOnSameWindow ==
  /\ cycle.pc = "executing" /\ cmd.pc = "executing"
  /\ riskParams.maxTradesPerHour = LowTradesPerHour
  /\ tradeHistory = <<>>

\* ------------------------------------------------------------------------
\* Stopped cycles
\* ------------------------------------------------------------------------

\* the step is the synchronous start of a scheduled cycle
CycleBegins == cycle.pc = "idle" /\ now' = now + 1

\* the cycle that just began found shouldStopTrading true and returned
StoppedItself(op) == op.pc = "idle" /\ op.log = <<Event("stop", NULL, FALSE)>>

\* the cycle that just began called makeDecision
CalledMakeDecision == cycle.pc = "idle" /\ cycle'.pc = "deciding"

C36_Step ==
  /\ CycleBegins /\ StoppedItself(cycle') =>
        /\ ~agentState'.isActive
        /\ UNCHANGED <<history, lossState, memeState, arbState, tradeHistory>>
        /\ agentState'.totalTrades = agentState.totalTrades
  /\ CalledMakeDecision =>
        /\ ~shouldStopTrading(riskParams, agentState, cycle'.md)
        /\ agentState.isActive
  /\ CycleBegins /\ (\A md \in AgentSnapshots(now') : shouldStopTrading(riskParams, agentState, md)) =>
        /\ cycle'.pc = "idle"
        /\ ~agentState'.isActive
  /\ cycle.pc = "idle" /\ cycle'.pc = "executing" => FALSE
  /\ ~agentState.isActive /\ agentState'.isActive =>
        /\ paused' = FALSE
        /\ UNCHANGED <<cycle, cmd, now, tradeHistory>>

\* C36: a cycle in which shouldStopTrading holds (agent inactive, daily loss
\* exceeded or drawdown above the limit) sets isActive to false and calls
\* neither makeDecision nor the execution collaborator; isActive goes back
\* to true only in a resumeTrading step, and no cycle that begins while it is
\* false calls makeDecision.
C36_StoppedCycleStaysStopped == [][C36_Step]_vars

\* Witness of C36: after a trade was counted, a cycle found the drawdown
\* above the limit, stopped itself without a pauseTrading call, and the
\* agent is inactive
C36_CycleStoppedAgent ==
  /\ StoppedItself(cycle)
  /\ ~agentState.isActive
  /\ ~paused
  /\ agentState.totalTrades >= 1
  /\ now >= 2

\* ------------------------------------------------------------------------
\* Spacing of the requests of RecallApiClient
\* ------------------------------------------------------------------------

\* C37: any two requests released by the interceptor of RecallApiClient are
\* at least minRequestInterval apart, requests started concurrently
\* included.
C37_RequestsSpaced ==
  \A i, j \in 1..Len(api.issued) :
    i < j => api.issued[j] - api.issued[i] >= minRequestInterval

\* ------------------------------------------------------------------------
\* Selection caches
\* ------------------------------------------------------------------------

CachePeriod(who) ==
  IF who = "loss" THEN lossSelectionCacheTimeout ELSE memeSelectionCacheTimeout

\* call i queried the collaborator and got a candidate
SuccessfulSelection(log, i) ==
  log[i].op = "find" /\ log[i].asked /\ log[i].returned # NoToken

\* no resetState of the same strategy between events i and j
NoResetBetween(log, i, j) ==
  \A k \in (i + 1)..(j - 1) : ~(log[k].who = log[i].who /\ log[k].op = "reset")

\* the next event of the same strategy after i is j
NextOfSame(log, i, j) ==
  /\ i < j
  /\ log[j].who = log[i].who
  /\ \A k \in (i + 1)..(j - 1) : log[k].who # log[i].who

\* C38: after a call of findBestLosingToken (findBestSolanaMemeToken) that
\* queried the collaborator and got a candidate, every call of the same
\* function less than 10 (5) minutes later, with no resetState in between,
\* does not query the collaborator and returns the same contract address;
\* after a call that got null the next call queries again, and so does the
\* first call after resetState.
C38_SelectionCached ==
  \A i, j \in 1..Len(finder.log) :
    LET log == finder.log IN
    /\ ( /\ i < j
         /\ SuccessfulSelection(log, i)
         /\ log[j].who = log[i].who /\ log[j].op = "find"
         /\ log[j].at - log[i].at < CachePeriod(log[i].who)
         /\ NoResetBetween(log, i, j) ) =>
           ~log[j].asked /\ log[j].returned = log[i].returned
    /\ ( /\ NextOfSame(log, i, j)
         /\ log[j].op = "find"
         /\ \/ log[i].op = "reset"
            \/ log[i].op = "find" /\ log[i].asked /\ log[i].returned = NoToken ) =>
           log[j].asked

\* Witness of C38: a selection, a second call inside the period answered
\* from the cache while the other strategy's call at the same time queries
C38_ServedFromCache ==
  /\ Len(finder.log) = 3
  /\ SuccessfulSelection(finder.log, 1)
  /\ finder.log[2].who = finder.log[1].who /\ finder.log[2].op = "find"
  /\ ~finder.log[2].asked
  /\ finder.log[2].at > finder.log[1].at
  /\ finder.log[3].who # finder.log[1].who /\ finder.log[3].asked

\* a selection followed by resetState and a call that queries inside the
\* period
C38_QueriedAfterReset ==
  /\ Len(finder.log) = 3
  /\ SuccessfulSelection(finder.log, 1)
  /\ finder.log[2].who = finder.log[1].who /\ finder.log[2].op = "reset"
  /\ finder.log[3].who = finder.log[1].who /\ finder.log[3].asked
  /\ finder.log[3].at - finder.log[1].at < CachePeriod(finder.log[1].who)

\* a call at exactly one cache period after the selection queries again
C38_QueriedAtExpiry ==
  \E i, j \in 1..Len(finder.log) :
    /\ SuccessfulSelection(finder.log, i)
    /\ NextOfSame(finder.log, i, j)
    /\ finder.log[j].at - finder.log[i].at = CachePeriod(finder.log[i].who)
    /\ finder.log[j].asked

\* ------------------------------------------------------------------------
\* The discovery fallback (specification SpecDiscovery)
\* ------------------------------------------------------------------------

\* the call that has just returned had a candidate: a fresh answer of the
\* collaborator or the cached selection (either way the selection is now
\* within its cache period)
CandidateFound ==
  /\ memeState.lastSelectedToken # NoToken
  /\ now * TickMs - memeState.lastSelectionTime < memeSelectionCacheTimeout

\* holdings other than the stable instrument worth at least the trade amount
WorthSelling(md, tradeAmountUSD) ==
  {i \in 1..Len(md.tokens) :
     /\ md.tokens[i].token # USDC
     /\ md.tokens[i].amount > 0
     /\ QGe(QInt(TokenValue(md.tokens[i])), tradeAmountUSD)}

BypassMarked(d) == d.isGuaranteedMemeTrade = TRUE /\ d.confidence = Q(1, 100)

\* d sells part of a highest-value holding of WorthSelling for the stable
\* instrument
SellsPartOfHighest(d, md, tradeAmountUSD) ==
  /\ d # NULL
  /\ d.action = "sell" /\ d.toToken = USDC
  /\ BypassMarked(d)
  /\ \E i \in WorthSelling(md, tradeAmountUSD) :
       /\ md.tokens[i].token = d.fromToken
       /\ \A j \in WorthSelling(md, tradeAmountUSD) :
            TokenValue(md.tokens[j]) <= TokenValue(md.tokens[i])
       /\ QGt(d.amount, QInt(0))
       /\ QLt(d.amount, QInt(md.tokens[i].amount))

BuysWithStable(d, tradeAmountUSD) ==
  /\ d # NULL
  /\ d.action = "buy" /\ d.fromToken = USDC
  /\ d.toToken = memeState.lastSelectedToken
  /\ d.amount = tradeAmountUSD
  /\ BypassMarked(d)

\* what the fallback owes when a candidate was found
FundedAsDescribed ==
  LET md == lastCall.md
      tradeAmountUSD == params.guaranteedMemeTradeAmountUSD
  IN IF QGe(QInt(getTokenBalance(md, USDC)), tradeAmountUSD)
     THEN BuysWithStable(lastCall.decision, tradeAmountUSD)
     ELSE IF WorthSelling(md, tradeAmountUSD) # {}
     THEN SellsPartOfHighest(lastCall.decision, md, tradeAmountUSD)
     ELSE lastCall.decision = NULL

\* C39: the discovery fallback returns null without querying the
\* token-discovery collaborator whenever guaranteedMemeTradeEnabled is
\* false; when it is enabled and a candidate is found it buys with the
\* stable instrument if the stable balance is at least the trade amount,
\* otherwise sells part of the highest-value other holding worth at least
\* the trade amount; every instruction it returns carries the bypass marker
\* and confidence 0.01.
C39_DiscoveryFallback ==
  lastCall # NoCall =>
    /\ ~params.guaranteedMemeTradeEnabled =>
          lastCall.decision = NULL /\ lastCall.calls = <<>>
    /\ params.guaranteedMemeTradeEnabled /\ CandidateFound => FundedAsDescribed
    /\ lastCall.decision # NULL => BypassMarked(lastCall.decision)

\* the same for candidates that carry a numeric priceChange24h
C39_WellFormedCandidates ==
  lastCall # NoCall =>
    /\ ~params.guaranteedMemeTradeEnabled =>
          lastCall.decision = NULL /\ lastCall.calls = <<>>
    /\ params.guaranteedMemeTradeEnabled /\ CandidateFound /\ memeState.wellFormed =>
          FundedAsDescribed
    /\ lastCall.decision # NULL => BypassMarked(lastCall.decision)

\* a candidate without priceChange24h, enough stable balance, and null
C39_NullDespiteCandidate ==
  /\ lastCall # NoCall
  /\ params.guaranteedMemeTradeEnabled
  /\ CandidateFound /\ ~memeState.wellFormed
  /\ QGe(QInt(getTokenBalance(lastCall.md, USDC)), params.guaranteedMemeTradeAmountUSD)
  /\ lastCall.decision = NULL

\* the stable balance is short and the larger of two eligible holdings is
\* sold
C39_SoldHighest ==
  /\ lastCall # NoCall
  /\ Cardinality(WorthSelling(lastCall.md, params.guaranteedMemeTradeAmountUSD)) = 2
  /\ getTokenBalance(lastCall.md, USDC) > 0
  /\ SellsPartOfHighest(lastCall.decision, lastCall.md, params.guaranteedMemeTradeAmountUSD)

====
